---- MODULE Spec2Model ----
(***************************************************************************)
(* Model of backend/ai_generator.py: AIGenerator.generate_response and the *)
(* sequential tool-calling loop of AIGenerator._handle_tool_execution.     *)
(* The language-model client (client.messages.create) is the environment:  *)
(* every call returns a value drawn from a small set, or raises.  The tool *)
(* manager (ToolManager of search_tools.py) and the caller that serves one *)
(* top-level query after another (RAGSystem.query of rag_system.py) are    *)
(* modelled from the specification's description of the Tool Registry and  *)
(* from tests/test_search_tools.py and tests/test_rag_system.py.           *)
(***************************************************************************)
EXTENDS Integers, Sequences, FiniteSets, TLC

(* ------------------------------ bounds -------------------------------- *)

\* longest content list of a model response
MaxBlocks == 2

\* largest max_rounds argument of a direct call of _handle_tool_execution
MaxRoundsBound == 1

\* how many top-level queries one registry serves
MaxQueries == 2

\* how many calls a caller of the registry alone makes
MaxRegistryCalls == 3

\* how many sources a tool holds at most when the registry is called alone
MaxSources == 2

\* how many dispatches of one query find nothing
MaxEmptyResults == 1

\* the largest value the environment gives MAX_TOOL_ROUNDS
MaxConfiguredRounds == 3

(* ------------------------- program constants -------------------------- *)

\* default of the max_rounds parameter of _handle_tool_execution
DefaultMaxRounds == 2

\* default of Config.MAX_TOOL_ROUNDS
DefaultMaxToolRounds == 2

\* AIGenerator.SYSTEM_PROMPT, an opaque text
SYSTEM_PROMPT == "SYSTEM_PROMPT"

\* the conversation_history / tools argument left out (Python None)
None == "None"

(* ---------------------------- the registry --------------------------- *)

VARIABLES
  profile,        \* who calls: "direct" a caller of AIGenerator's methods,
                  \* "front_door" RAGSystem.query, "config" the same
                  \* under any Config, "registry" a caller of the tool
                  \* manager alone, "extract" a caller of
                  \* _extract_text_from_response alone, "prompt" of the
                  \* first api_params alone, "app" a client of app.py,
                  \* "concurrent" two callers of one generator at once
  registered,     \* the names of ToolManager.tools, in registration order
  last_sources,   \* last_sources of every registered tool
  query_no,       \* the number of the top-level query being served
  registry_calls  \* the calls made on the tool manager alone, with results

registryVars == <<profile, registered, last_sources, query_no, registry_calls>>

SearchToolName == "search_course_content"

OutlineToolName == "get_course_outline"

\* the tools RAGSystem registers, in either order, or the search tool alone
Registrations ==
  {<<SearchToolName, OutlineToolName>>, <<OutlineToolName, SearchToolName>>,
   <<SearchToolName>>}

Digit == <<"1", "2", "3", "4", "5", "6", "7", "8", "9">>

(* --------------------------- the generator --------------------------- *)

VARIABLES
  run,          \* which of the generate_response calls in progress is running
  parked,       \* the locals and _ToolCallingState of the call that waits
  base_params   \* AIGenerator.base_params, one dict for every call

\* self.base_params as __init__ builds it
GeneratorBaseParams ==
  [model |-> "model", temperature |-> 0, max_tokens |-> 800]

(* ------------------------- environment values ------------------------- *)

\* two calls in progress at once ask different questions
Queries == IF profile = "concurrent" THEN {"Q" \o Digit[run]} ELSE {"Q"}

\* RAGSystem.query is followed for a session without history; two calls in
\* progress at once come with different histories
Histories ==
  IF profile \in {"front_door", "config"}
    THEN {None}
    ELSE IF profile = "concurrent"
           THEN {"H" \o Digit[run]}
           ELSE {None, "", "H"}

\* the schema list of the tool manager, get_tool_definitions()
ToolSchemas == registered

\* the tools argument of generate_response: left out, or the schema list;
\* RAGSystem.query passes the schema list
ToolsArgs ==
  IF profile \in {"front_door", "config", "concurrent"}
    THEN {ToolSchemas}
    ELSE {<<>>, ToolSchemas}

\* the tool_manager argument of generate_response: RAGSystem.query passes one
ToolManagerArgs ==
  IF profile \in {"front_door", "config", "concurrent"} THEN {TRUE} ELSE BOOLEAN

TextPayloads ==
  IF profile \in {"front_door", "config", "concurrent"} THEN {"A"} ELSE {"A", "B"}

\* the tool names the model asks for
ToolNames ==
  IF profile = "front_door"
    THEN {SearchToolName, OutlineToolName}
    ELSE {SearchToolName}

ToolErrors == {"m1"}

ModelErrors == {"e1"}

StopReasons == {"tool_use", "end_turn"}

TextBlock(t) == [type |-> "text", text |-> t]

ToolUseBlock(i, n) == [type |-> "tool_use", id |-> i, name |-> n]

\* the identifier the API gives the tool_use block at position i of the k-th
\* response of the conversation of call r
ToolUseIdOf(r, k, i) ==
  "toolu_" \o Digit[r] \o "_" \o Digit[k] \o "_" \o Digit[i]

\* the identifier the API gives the tool_use block at position i of the k-th
\* response of a query: no two blocks of a conversation share one, and none
\* is shared by two conversations in progress at once
ToolUseId(k, i) ==
  IF profile = "concurrent"
    THEN ToolUseIdOf(run, k, i)
    ELSE "toolu_" \o Digit[k] \o "_" \o Digit[i]

\* what a block is before the API stamps an identifier on it
BlockShapes ==
  {TextBlock(t) : t \in TextPayloads}
    \cup {[type |-> "tool_use", name |-> n] : n \in ToolNames}

ToolUseIdx(content) == {i \in 1..Len(content) : content[i].type = "tool_use"}

\* the content lists of at most len blocks the k-th response of a query can hold
ContentsUpTo(k, len) ==
  {[i \in 1..Len(c) |->
      IF c[i].type = "tool_use"
        THEN ToolUseBlock(ToolUseId(k, i), c[i].name)
        ELSE c[i]] :
     c \in UNION {[1..n -> BlockShapes] : n \in 0..len}}

\* the content lists of responses to calls in progress at once: nothing, a
\* text, a tool request, a text and a tool request
ConcurrentContents(k) ==
  {<<>>, <<TextBlock("A")>>,
   <<ToolUseBlock(ToolUseId(k, 1), SearchToolName)>>,
   <<TextBlock("A"), ToolUseBlock(ToolUseId(k, 2), SearchToolName)>>}

\* the content lists the k-th response of a query can hold
Contents(k) ==
  IF profile = "concurrent"
    THEN ConcurrentContents(k)
    ELSE ContentsUpTo(k, MaxBlocks)

Response(sr, c) == [stop_reason |-> sr, content |-> c]

\* every response of the first client.messages.create call of a query
Responses == {Response(sr, c) : sr \in StopReasons, c \in Contents(1)}

(* ------------------------------- state -------------------------------- *)

VARIABLES
  pc,            \* position of the one query being served
  entry,         \* the method the caller entered
  tool_manager,  \* TRUE when a tool manager was passed
  system,        \* base_params["system"]
  messages,      \* state.messages
  current_round, \* state.current_round
  max_rounds,    \* state.max_rounds
  last_response, \* state.last_response
  tool_results,  \* tool_results of _execute_tools_for_round
  idx,           \* position of the for loop of _execute_tools_for_round
  calls,         \* the api_params of every client.messages.create call made
  responses,     \* the responses the model has given to this query, in order
  dispatches,    \* every tool_manager.execute_tool call made
  result,        \* what the entered method handed its caller
  exit           \* the statement the run left through

queryVars ==
  <<pc, entry, tool_manager, system, messages, current_round, max_rounds,
    last_response, tool_results, idx, calls, responses, dispatches, result,
    exit>>

VARIABLES
  args,      \* the arguments of the generate_response call whose first
             \* api_params are built alone
  tool_of,   \* ToolManager.tools: the tool object held under each name
  startup,   \* what startup_event of app.py did
  sessions,  \* the ids session_manager.create_session returned to app.py
  http,      \* the requests POST /api/query served, with their responses
  new_sessions, \* the responses POST /api/session/new gave
  config     \* the Config object of config.py the service runs with

\* what no generate_response call writes
outerVars ==
  <<args, tool_of, startup, sessions, http, new_sessions, config, run, parked>>

aloneVars == <<outerVars, base_params>>

vars == <<queryVars, registryVars, aloneVars>>

NoArgs == [kind |-> "none"]

NoStartup == [kind |-> "none"]

\* every registered name holds the tool object registered first
FirstTools(reg) == [n \in {reg[i] : i \in 1..Len(reg)} |-> 1]

\* Config() when the environment does not set MAX_TOOL_ROUNDS
DefaultConfig == [MAX_TOOL_ROUNDS |-> DefaultMaxToolRounds]

NoResponse == Response("none", <<>>)

NoResult == [kind |-> "none"]

Returned(text) == [kind |-> "return", text |-> text]

Raised(message) == [kind |-> "raise", message |-> message]

\* the state of a query that has not started
NoQuery ==
  [pc |-> "idle", entry |-> "none", tool_manager |-> FALSE, system |-> "",
   messages |-> <<>>, current_round |-> 0, max_rounds |-> 0,
   last_response |-> NoResponse, tool_results |-> <<>>, idx |-> 0,
   calls |-> <<>>, responses |-> <<>>, dispatches |-> <<>>,
   result |-> NoResult, exit |-> "none"]

\* one generate_response call at a time, on a generator just built
OneCall ==
  /\ run = 1
  /\ parked = NoQuery
  /\ base_params = GeneratorBaseParams

\* no part is exercised on its own
NothingAlone ==
  /\ config = DefaultConfig
  /\ OneCall
  /\ args = NoArgs
  /\ tool_of = FirstTools(registered)
  /\ startup = NoStartup
  /\ sessions = <<>>
  /\ http = <<>>
  /\ new_sessions = <<>>

\* a registry whose tools hold no sources
NoSources(reg) == [n \in {reg[i] : i \in 1..Len(reg)} |-> <<>>]

Init ==
  /\ profile = "direct"
  /\ registered = <<SearchToolName, OutlineToolName>>
  /\ last_sources = NoSources(registered)
  /\ query_no = 1
  /\ registry_calls = <<>>
  /\ NothingAlone
  /\ pc = "idle"
  /\ entry = "none"
  /\ tool_manager = FALSE
  /\ system = ""
  /\ messages = <<>>
  /\ current_round = 0
  /\ max_rounds = 0
  /\ last_response = NoResponse
  /\ tool_results = <<>>
  /\ idx = 0
  /\ calls = <<>>
  /\ responses = <<>>
  /\ dispatches = <<>>
  /\ result = NoResult
  /\ exit = "none"

(* --------------------------- pure helpers ----------------------------- *)

RECURSIVE JoinText_UntilToolUse(_)
\* the join that stops at the first block without a text attribute
JoinText_UntilToolUse(content) ==
  IF content = <<>> \/ Head(content).type # "text"
    THEN ""
    ELSE Head(content).text \o JoinText_UntilToolUse(Tail(content))

RECURSIVE JoinText(_)
\* "".join(text_parts) over the blocks that have a text attribute
JoinText(content) ==
  IF content = <<>>
    THEN ""
    ELSE (IF Head(content).type = "text" THEN Head(content).text ELSE "")
           \o JoinText(Tail(content))

\* the text of the first block alone, as in response.content[0].text
extract_text_first_block(response) ==
  IF response.content # <<>> /\ Head(response.content).type = "text"
    THEN Head(response.content).text
    ELSE ""

\* _extract_text_from_response
extract_text_from_response(response) == JoinText(response.content)

\* every response taken to hold a tool_use block
has_tool_use_blocks_Always(response) == TRUE

\* _has_tool_use_blocks
has_tool_use_blocks(response) ==
  \E i \in 1..Len(response.content) : response.content[i].type = "tool_use"

\* a test of conversation_history against None alone
Truthy_NotNone(h) == h # None

\* the truth value Python gives conversation_history
Truthy(h) == h # None /\ h # ""

\* system_content of generate_response
SystemContent(h) ==
  IF Truthy(h)
    THEN SYSTEM_PROMPT \o "\n\nPrevious conversation:\n" \o h
    ELSE SYSTEM_PROMPT

UserTurn(content) == [role |-> "user", content |-> content]

AssistantTurn(content) == [role |-> "assistant", content |-> content]

\* api_params of the first call; tools and tool_choice only when tools is truthy
FirstApiParams(q, h, t) ==
  [site |-> "first",
   messages |-> <<UserTurn(q)>>,
   system |-> SystemContent(h),
   has_tools |-> (t # <<>>),
   tools |-> t,
   has_tool_choice |-> (t # <<>>)]

\* the intermediate call sent with the static instructions alone
IntermediateApiParams_StaticSystem(msgs, sys) ==
  [site |-> "intermediate",
   messages |-> msgs,
   system |-> SYSTEM_PROMPT,
   has_tools |-> TRUE,
   tools |-> ToolSchemas,
   has_tool_choice |-> TRUE]

\* api_params of _make_intermediate_api_call
IntermediateApiParams(msgs, sys) ==
  [site |-> "intermediate",
   messages |-> msgs,
   system |-> sys,
   has_tools |-> TRUE,
   tools |-> ToolSchemas,
   has_tool_choice |-> TRUE]

\* the final call with the schemas still offered
FinalApiParams_WithTools(msgs, sys) ==
  [site |-> "final",
   messages |-> msgs,
   system |-> sys,
   has_tools |-> TRUE,
   tools |-> ToolSchemas,
   has_tool_choice |-> TRUE]

\* api_params of _make_final_api_call
FinalApiParams(msgs, sys) ==
  [site |-> "final",
   messages |-> msgs,
   system |-> sys,
   has_tools |-> FALSE,
   tools |-> <<>>,
   has_tool_choice |-> FALSE]

\* delegation decided by the content of the response, not its stop_reason
ShouldDelegate_OnContent(response, tm) ==
  tm /\ \E i \in 1..Len(response.content) : response.content[i].type = "tool_use"

\* the orchestrator entered on the stop condition alone
ShouldDelegate_WithoutManager(response, tm) == response.stop_reason = "tool_use"

\* the condition under which generate_response enters the orchestrator
ShouldDelegate(response, tm) == response.stop_reason = "tool_use" /\ tm

\* the configured round limit handed on to the orchestrator
MaxRoundsOfQuery_Configured(cfg) == cfg.MAX_TOOL_ROUNDS

\* max_rounds of the orchestrator when generate_response enters it: the call
\* passes no max_rounds, so the parameter's default applies
MaxRoundsOfQuery(cfg) == DefaultMaxRounds

\* current_round of a fresh _ToolCallingState
InitialRound == 0

\* a loop that runs its body once before it tests the round budget
LoopCondition_BodyFirst(round, mr) == round < mr \/ round = 0

\* the while condition of _handle_tool_execution
LoopCondition(round, mr) == round < mr

\* the round counter advanced by two
NextRound_Two(round) == round + 2

\* state.current_round += 1
NextRound(round) == round + 1

\* the forced final call never chosen
ShouldMakeFinalCall_Never(round, mr) == FALSE

\* the final call selected one round early
ShouldMakeFinalCall_EarlyByOne(round, mr) == round + 1 >= mr

\* the final call selected one round late
ShouldMakeFinalCall_Late(round, mr) == round > mr

\* the test that selects the final call after a round
ShouldMakeFinalCall(round, mr) == round >= mr

\* the result keyed by the tool's name instead of the invocation's identifier
ToolResult_ByName(block, text) ==
  [type |-> "tool_result", tool_use_id |-> block.name, content |-> text]

\* the tool_result block built for one dispatched block
ToolResult(block, text) ==
  [type |-> "tool_result", tool_use_id |-> block.id, content |-> text]

\* the assistant turn alone, the results never appended
ToolMessages_AssistantOnly(response, results) ==
  <<[role |-> "assistant", content |-> response.content]>>

\* the assistant turn stripped of everything but the tool_use blocks
ToolMessages_ToolUseOnly(response, results) ==
  IF results # <<>>
    THEN <<AssistantTurn(SelectSeq(response.content,
                                   LAMBDA b : b.type = "tool_use")),
           UserTurn(results)>>
    ELSE <<AssistantTurn(SelectSeq(response.content,
                                   LAMBDA b : b.type = "tool_use"))>>

\* tool_messages of a round whose dispatches all returned
ToolMessages(response, results) ==
  IF results # <<>>
    THEN <<AssistantTurn(response.content), UserTurn(results)>>
    ELSE <<AssistantTurn(response.content)>>

\* the exception's message handed on as it is
ToolExecutionError_Bare(e) == e

\* the error value _execute_tools_for_round returns when a dispatch raises
ToolExecutionError(e) == "Tool execution failed: " \o e

\* _handle_tool_error
handle_tool_error(error_message) ==
  "I encountered an error while searching: " \o error_message

\* the search for the next tool_use block started one position too far
NextToolUse_SkipsOne(content, i) ==
  IF \E j \in (i + 1)..Len(content) : content[j].type = "tool_use"
    THEN CHOOSE j \in (i + 1)..Len(content) :
           /\ content[j].type = "tool_use"
           /\ \A k \in (i + 1)..(j - 1) : content[k].type # "tool_use"
    ELSE Len(content) + 1

\* the first position >= i of a tool_use block, Len + 1 when there is none
NextToolUse(content, i) ==
  IF \E j \in i..Len(content) : content[j].type = "tool_use"
    THEN CHOOSE j \in i..Len(content) :
           /\ content[j].type = "tool_use"
           /\ \A k \in i..(j - 1) : content[k].type # "tool_use"
    ELSE Len(content) + 1

\* the stop condition the API reports for a content list
StopReasonOf(content) ==
  IF ToolUseIdx(content) # {} THEN "tool_use" ELSE "end_turn"

\* responses to the k-th call, k > 1: their stop condition is never read
LaterResponses(k) == {Response(StopReasonOf(c), c) : c \in Contents(k)}

Dispatch(round, block, outcome) ==
  [round |-> round, id |-> block.id, name |-> block.name, outcome |-> outcome]

(* ---------------------------- ToolManager ----------------------------- *)

\* what a tool returns when its search finds nothing
EmptyResultText == "No relevant content found."

\* what a tool returns when its search finds one result: a text of its own,
\* so that no two dispatches of a conversation that find something return the
\* same text
OneResultText(block) == "result of " \o block.id

\* what a tool returns when its search finds two results
TwoResultsText(block) == "results of " \o block.id

\* what a tool returns when the store's search reports an error: the error
\* text of the store
SearchErrorText == "Search error: Database connection failed"

\* the texts a tool returns without any result
NoResultTexts == {EmptyResultText, SearchErrorText}

\* the dispatches of the query so far that returned without any result
EmptyResults ==
  {k \in 1..Len(dispatches) :
     /\ dispatches[k].outcome.kind = "return"
     /\ dispatches[k].outcome.text \in NoResultTexts}

\* what execute_tool can return for an invocation: a tool called on its own
\* finds one result or two, finds nothing, or returns the store's error text;
\* within a query it finds one result, or returns without any for at most
\* MaxEmptyResults of the query's dispatches (finding nothing when
\* RAGSystem.query serves the query, that or the store's error text when two
\* calls are in progress at once); the tools handed to the generator alone
\* find one result
ToolOutputs(block) ==
  IF profile = "registry"
    THEN {OneResultText(block), TwoResultsText(block)} \cup NoResultTexts
    ELSE {OneResultText(block)}
           \cup (IF /\ profile \in {"front_door", "concurrent"}
                      /\ Cardinality(EmptyResults) < MaxEmptyResults
                   THEN IF profile = "concurrent"
                          THEN NoResultTexts
                          ELSE {EmptyResultText}
                   ELSE {})

\* tool_name in self.tools
IsRegistered(reg, name) == \E i \in 1..Len(reg) : reg[i] = name

\* what execute_tool returns for a name no tool was registered under
NotFoundText(name) == "Tool '" \o name \o "' not found"

\* the Source a tool records for an invocation; query tells the runs of two
\* top-level queries apart, whose invocations carry the same identifiers
Source(q, block) == [name |-> "source of " \o block.id, query |-> q]

\* the Source a tool records for the second result of an invocation
SecondSource(q, block) ==
  [name |-> "second source of " \o block.id, query |-> q]

\* the sources a tool records for an execution that returned text: one for
\* each result found, none when nothing was found or the store reported an
\* error
SourcesOf(q, block, text) ==
  IF text \in NoResultTexts
    THEN <<>>
    ELSE IF text = TwoResultsText(block)
           THEN <<Source(q, block), SecondSource(q, block)>>
           ELSE <<Source(q, block)>>

\* ToolManager.execute_tool: the not-found text for an unknown name, else
\* what the tool's execute returns or raises
ExecuteToolOutcomes(reg, block) ==
  IF IsRegistered(reg, block.name)
    THEN {Returned(out) : out \in ToolOutputs(block)}
           \cup {Raised(m) : m \in ToolErrors}
    ELSE {Returned(NotFoundText(block.name))}

\* last_sources after execute_tool returned for block: the executed tool
\* holds the sources of this execution, each other tool what it held
RecordSources(ls, reg, q, block, text) ==
  IF IsRegistered(reg, block.name)
    THEN [ls EXCEPT ![block.name] = SourcesOf(q, block, text)]
    ELSE ls

\* register_tool that adds an entry at every call
RegisterNames_Appends(reg, name) == Append(reg, name)

\* ToolManager.register_tool on the names held: self.tools[name] = tool adds
\* the name when it is new and keeps its place when it is not
RegisterNames(reg, name) ==
  IF IsRegistered(reg, name) THEN reg ELSE Append(reg, name)

\* the tool objects registered under one name are numbered as they come
NextTool(reg, tools, name) ==
  IF IsRegistered(reg, name) THEN tools[name] + 1 ELSE 1

\* ToolManager.register_tool on the tool objects held
RegisterTool(reg, tools, name) ==
  [n \in DOMAIN tools \cup {name} |->
     IF n = name THEN NextTool(reg, tools, name) ELSE tools[n]]

\* ToolManager.register_tool on the sources held: the tool object registered
\* keeps the last_sources it held when it was handed over, and a tool object
\* it replaces under the name is gone with its sources
SourcesAfterRegister(ls, name, held) ==
  [n \in DOMAIN ls \cup {name} |-> IF n = name THEN held ELSE ls[n]]

\* the course_name inputs: one some course title matches, one none matches
CourseNames == {"MCP", "zzz-no-such-course"}

\* the course name resolves to a course
Resolves(course_name) == course_name = "MCP"

\* what a tool returns when the course name does not resolve
MissText(course_name) == "No course found matching '" \o course_name \o "'"

\* a tool whose course name did not resolve keeps the sources it held
SourcesAfterMiss_Keeps(ls, name) == ls

\* a tool whose course name did not resolve holds zero sources
SourcesAfterMiss(ls, name) == [ls EXCEPT ![name] = <<>>]

\* the invocation a caller of execute_tool makes as its k-th call
Invocation(k, name, course_name) ==
  [id |-> "call_" \o Digit[k], name |-> name, course_name |-> course_name]

\* the invocation reaches a tool that cannot resolve its course name
Misses(reg, inv) == IsRegistered(reg, inv.name) /\ ~Resolves(inv.course_name)

\* ToolManager.execute_tool for an invocation with a course name
ExecuteOutcomesFor(reg, inv) ==
  IF Misses(reg, inv)
    THEN {Returned(MissText(inv.course_name))}
    ELSE ExecuteToolOutcomes(reg, inv)

\* last_sources after execute_tool returned or raised for the invocation
SourcesAfterExecute(ls, reg, q, inv, outcome) ==
  IF outcome.kind = "raise"
    THEN ls
    ELSE IF Misses(reg, inv)
           THEN SourcesAfterMiss(ls, inv.name)
           ELSE RecordSources(ls, reg, q, inv, outcome.text)

\* reset_sources that leaves every tool's list as it is
reset_sources_Keeps(ls) == ls

\* reset_sources that clears the search tool and no other
reset_sources_SearchToolOnly(ls) ==
  [n \in DOMAIN ls |-> IF n = SearchToolName THEN <<>> ELSE ls[n]]

\* ToolManager.reset_sources
reset_sources(ls) == [n \in DOMAIN ls |-> <<>>]

\* the sources of the first tool that holds any
collect_sources_FirstHolder(reg, ls) ==
  IF \E i \in 1..Len(reg) : ls[reg[i]] # <<>>
    THEN ls[reg[CHOOSE i \in 1..Len(reg) :
                  /\ ls[reg[i]] # <<>>
                  /\ \A j \in 1..(i - 1) : ls[reg[j]] = <<>>]]
    ELSE <<>>

RECURSIVE collect_sources(_, _)
\* ToolManager.get_last_sources: every tool's sources, in registration order
collect_sources(reg, ls) ==
  IF reg = <<>> THEN <<>> ELSE ls[Head(reg)] \o collect_sources(Tail(reg), ls)

(* ------------------------- generate_response -------------------------- *)

\* api_params built by writing the call's entries into self.base_params
BaseParamsAfterFirstCall_InPlace(bp, q, h) ==
  [k \in DOMAIN bp \cup {"messages", "system"} |->
     IF k = "messages"
       THEN <<UserTurn(q)>>
       ELSE IF k = "system" THEN SystemContent(h) ELSE bp[k]]

\* self.base_params once generate_response has built its api_params: the
\* dict display {**self.base_params, ...} makes a new dict
BaseParamsAfterFirstCall(bp, q, h) == bp

\* the call waits inside client.messages.create, its request sent and no
\* response received yet
InCreate == pc \in {"create_first", "create_intermediate", "create_final"}

\* the requests sent once the call with these api_params is made: a call
\* that waited inside create had sent its request when it entered
CallsWith(api_params) ==
  IF InCreate THEN calls ELSE Append(calls, api_params)

\* generate_response is at its first client.messages.create: entering it, or
\* waiting inside it
AtFirstCall == pc \in {"idle", "create_first"}

\* the arguments are those the call was entered with
ArgsOfFirstCall(q, h, t, tm) ==
  pc = "create_first" =>
    /\ calls = <<FirstApiParams(q, h, t)>>
    /\ tool_manager = tm

\* generate_response builds its api_params and enters client.messages.create,
\* where another call on the same generator can run before it returns
FirstCallEntered ==
  /\ profile = "concurrent"
  /\ pc = "idle"
  /\ \E q \in Queries, h \in Histories, t \in ToolsArgs, tm \in ToolManagerArgs :
       /\ entry' = "generate_response"
       /\ tool_manager' = tm
       /\ system' = SystemContent(h)
       /\ calls' = Append(calls, FirstApiParams(q, h, t))
       /\ base_params' = BaseParamsAfterFirstCall(base_params, q, h)
       /\ pc' = "create_first"
  /\ UNCHANGED <<messages, current_round, max_rounds, last_response,
                 tool_results, idx, responses, dispatches, result, exit>>
  /\ UNCHANGED <<registryVars, outerVars>>

\* the first model call raises: the exception leaves generate_response
GenerateResponseRaises ==
  /\ AtFirstCall
  /\ \E q \in Queries, h \in Histories, t \in ToolsArgs, tm \in ToolManagerArgs,
        e \in ModelErrors :
       /\ ArgsOfFirstCall(q, h, t, tm)
       /\ entry' = "generate_response"
       /\ tool_manager' = tm
       /\ system' = SystemContent(h)
       /\ calls' = CallsWith(FirstApiParams(q, h, t))
       /\ base_params' = BaseParamsAfterFirstCall(base_params, q, h)
       /\ result' = Raised(e)
       /\ exit' = "raise_first"
       /\ pc' = "done"
  /\ UNCHANGED <<messages, current_round, max_rounds, last_response,
                 tool_results, idx, responses, dispatches>>
  /\ UNCHANGED <<registryVars, outerVars>>

\* the first response is answered directly
GenerateResponseDirect ==
  /\ AtFirstCall
  /\ \E q \in Queries, h \in Histories, t \in ToolsArgs, tm \in ToolManagerArgs,
        r \in Responses :
       /\ ArgsOfFirstCall(q, h, t, tm)
       /\ ~ShouldDelegate(r, tm)
       /\ entry' = "generate_response"
       /\ tool_manager' = tm
       /\ system' = SystemContent(h)
       /\ calls' = CallsWith(FirstApiParams(q, h, t))
       /\ base_params' = BaseParamsAfterFirstCall(base_params, q, h)
       /\ responses' = Append(responses, r)
       /\ result' = Returned(extract_text_from_response(r))
       /\ exit' = "direct"
       /\ pc' = "done"
  /\ UNCHANGED <<messages, current_round, max_rounds, last_response,
                 tool_results, idx, dispatches>>
  /\ UNCHANGED <<registryVars, outerVars>>

\* the first response is handed to _handle_tool_execution, which builds its state
GenerateResponseDelegates ==
  /\ AtFirstCall
  /\ \E q \in Queries, h \in Histories, t \in ToolsArgs, tm \in ToolManagerArgs,
        r \in Responses :
       /\ ArgsOfFirstCall(q, h, t, tm)
       /\ ShouldDelegate(r, tm)
       /\ entry' = "generate_response"
       /\ tool_manager' = tm
       /\ system' = SystemContent(h)
       /\ calls' = CallsWith(FirstApiParams(q, h, t))
       /\ base_params' = BaseParamsAfterFirstCall(base_params, q, h)
       /\ responses' = Append(responses, r)
       /\ messages' = FirstApiParams(q, h, t).messages
       /\ current_round' = InitialRound
       /\ max_rounds' = MaxRoundsOfQuery(config)
       /\ last_response' = r
       /\ pc' = "loop"
  /\ UNCHANGED <<tool_results, idx, dispatches, result, exit>>
  /\ UNCHANGED <<registryVars, outerVars>>

(* ----------------------- _handle_tool_execution ----------------------- *)

\* the max_rounds argument of a direct call, an int the method does not
\* validate: negative, zero or positive
MaxRoundsArgs == (0 - 1)..MaxRoundsBound

\* a caller enters the orchestrator itself, with its own max_rounds
HandleToolExecutionCalled ==
  /\ pc = "idle"
  /\ \E q \in Queries, r \in Responses, mr \in MaxRoundsArgs :
       /\ entry' = "_handle_tool_execution"
       /\ tool_manager' = TRUE
       /\ system' = SYSTEM_PROMPT
       /\ messages' = <<UserTurn(q)>>
       /\ current_round' = InitialRound
       /\ max_rounds' = mr
       /\ last_response' = r
       /\ responses' = <<r>>
       /\ pc' = "loop"
  /\ UNCHANGED <<tool_results, idx, calls, dispatches, result, exit>>
  /\ UNCHANGED <<registryVars, aloneVars>>

\* the while condition is false: the return after the loop
LoopExit ==
  /\ pc = "loop"
  /\ ~LoopCondition(current_round, max_rounds)
  /\ result' = Returned(extract_text_from_response(last_response))
  /\ exit' = "fallback"
  /\ pc' = "done"
  /\ UNCHANGED <<entry, tool_manager, system, messages, current_round,
                 max_rounds, last_response, tool_results, idx, calls,
                 responses, dispatches>>
  /\ UNCHANGED <<registryVars, aloneVars>>

\* the current response holds no tool_use block: return its text
EarlyTermination ==
  /\ pc = "loop"
  /\ LoopCondition(current_round, max_rounds)
  /\ ~has_tool_use_blocks(last_response)
  /\ result' = Returned(extract_text_from_response(last_response))
  /\ exit' = "early"
  /\ pc' = "done"
  /\ UNCHANGED <<entry, tool_manager, system, messages, current_round,
                 max_rounds, last_response, tool_results, idx, calls,
                 responses, dispatches>>
  /\ UNCHANGED <<registryVars, aloneVars>>

\* _execute_tools_for_round starts on the current response
BeginRound ==
  /\ pc = "loop"
  /\ LoopCondition(current_round, max_rounds)
  /\ has_tool_use_blocks(last_response)
  /\ tool_results' = <<>>
  /\ idx' = NextToolUse(last_response.content, 1)
  /\ pc' = "exec"
  /\ UNCHANGED <<entry, tool_manager, system, messages, current_round,
                 max_rounds, last_response, calls, responses, dispatches,
                 result, exit>>
  /\ UNCHANGED <<registryVars, aloneVars>>

\* the not-found text of an unknown tool name treated as a failed dispatch
DispatchReturns_NotFoundFatal ==
  /\ pc = "exec"
  /\ idx <= Len(last_response.content)
  /\ LET block == last_response.content[idx] IN
       \E o \in ExecuteToolOutcomes(registered, block) :
         /\ o.kind = "return"
         /\ dispatches' = Append(dispatches, Dispatch(current_round, block, o))
         /\ IF IsRegistered(registered, block.name)
              THEN /\ tool_results' =
                        Append(tool_results, ToolResult(block, o.text))
                   /\ last_sources' =
                        RecordSources(last_sources, registered, query_no, block,
                            o.text)
                   /\ idx' = NextToolUse(last_response.content, idx + 1)
                   /\ UNCHANGED <<pc, result, exit>>
              ELSE /\ result' = Returned(handle_tool_error(o.text))
                   /\ exit' = "tool_error"
                   /\ pc' = "done"
                   /\ UNCHANGED <<tool_results, last_sources, idx>>
  /\ UNCHANGED <<entry, tool_manager, system, messages, current_round,
                 max_rounds, last_response, calls, responses>>
  /\ UNCHANGED <<profile, registered, query_no, registry_calls>>
  /\ UNCHANGED aloneVars

\* the round counter advanced by every dispatch that returns
DispatchReturns_CountsDispatch ==
  /\ pc = "exec"
  /\ idx <= Len(last_response.content)
  /\ LET block == last_response.content[idx] IN
       \E o \in ExecuteToolOutcomes(registered, block) :
         /\ o.kind = "return"
         /\ tool_results' = Append(tool_results, ToolResult(block, o.text))
         /\ dispatches' = Append(dispatches, Dispatch(current_round, block, o))
         /\ last_sources' =
              RecordSources(last_sources, registered, query_no, block,
                            o.text)
  /\ idx' = NextToolUse(last_response.content, idx + 1)
  /\ current_round' =
       IF idx' <= Len(last_response.content)
         THEN NextRound(current_round)
         ELSE current_round
  /\ UNCHANGED <<pc, entry, tool_manager, system, messages, max_rounds,
                 last_response, calls, responses, result, exit>>
  /\ UNCHANGED <<profile, registered, query_no, registry_calls>>
  /\ UNCHANGED aloneVars

\* execute_tool returns for the block at idx
DispatchReturns ==
  /\ pc = "exec"
  /\ idx <= Len(last_response.content)
  /\ LET block == last_response.content[idx] IN
       \E o \in ExecuteToolOutcomes(registered, block) :
         /\ o.kind = "return"
         /\ tool_results' = Append(tool_results, ToolResult(block, o.text))
         /\ dispatches' = Append(dispatches, Dispatch(current_round, block, o))
         /\ last_sources' =
              RecordSources(last_sources, registered, query_no, block,
                            o.text)
  /\ idx' = NextToolUse(last_response.content, idx + 1)
  /\ UNCHANGED <<pc, entry, tool_manager, system, messages, current_round,
                 max_rounds, last_response, calls, responses, result, exit>>
  /\ UNCHANGED <<profile, registered, query_no, registry_calls>>
  /\ UNCHANGED aloneVars

\* a raising dispatch recorded as that block's result, the round going on
DispatchRaises_Continue ==
  /\ pc = "exec"
  /\ idx <= Len(last_response.content)
  /\ LET block == last_response.content[idx] IN
       \E o \in ExecuteToolOutcomes(registered, block) :
         /\ o.kind = "raise"
         /\ tool_results' = Append(tool_results, ToolResult(block, o.message))
         /\ dispatches' = Append(dispatches, Dispatch(current_round, block, o))
  /\ idx' = NextToolUse(last_response.content, idx + 1)
  /\ UNCHANGED <<pc, entry, tool_manager, system, messages, current_round,
                 max_rounds, last_response, calls, responses, result, exit>>
  /\ UNCHANGED <<registryVars, aloneVars>>

\* the exception of a raising dispatch let through to the caller
DispatchRaises_Propagates ==
  /\ pc = "exec"
  /\ idx <= Len(last_response.content)
  /\ LET block == last_response.content[idx] IN
       \E o \in ExecuteToolOutcomes(registered, block) :
         /\ o.kind = "raise"
         /\ dispatches' = Append(dispatches, Dispatch(current_round, block, o))
         /\ result' = Raised(o.message)
  /\ exit' = "tool_error"
  /\ pc' = "done"
  /\ UNCHANGED <<entry, tool_manager, system, messages, current_round,
                 max_rounds, last_response, tool_results, idx, calls,
                 responses>>
  /\ UNCHANGED <<registryVars, aloneVars>>

\* execute_tool raises for the block at idx: the error answer is returned
DispatchRaises ==
  /\ pc = "exec"
  /\ idx <= Len(last_response.content)
  /\ LET block == last_response.content[idx] IN
       \E o \in ExecuteToolOutcomes(registered, block) :
         /\ o.kind = "raise"
         /\ dispatches' = Append(dispatches, Dispatch(current_round, block, o))
         /\ result' = Returned(handle_tool_error(ToolExecutionError(o.message)))
  /\ exit' = "tool_error"
  /\ pc' = "done"
  /\ UNCHANGED <<entry, tool_manager, system, messages, current_round,
                 max_rounds, last_response, tool_results, idx, calls,
                 responses>>
  /\ UNCHANGED <<registryVars, aloneVars>>

\* state.messages replaced by the round's tool_messages instead of extended
MessagesAfterRound_Replaces == ToolMessages(last_response, tool_results)

\* state.messages after the round's tool_messages are appended
MessagesAfterRound == messages \o ToolMessages(last_response, tool_results)

RoundDone == pc = "exec" /\ idx > Len(last_response.content)

\* the orchestrator is at its final call: about to make it after a round
\* that used up the budget, or waiting inside it
AtFinalCall ==
  \/ /\ RoundDone
     /\ ShouldMakeFinalCall(NextRound(current_round), max_rounds)
  \/ pc = "create_final"

\* the orchestrator is at an intermediate call: about to make it after a
\* round that left rounds, or waiting inside it
AtIntermediateCall ==
  \/ /\ RoundDone
     /\ ~ShouldMakeFinalCall(NextRound(current_round), max_rounds)
  \/ pc = "create_intermediate"

\* state.messages when the call after a round is made: extended by the
\* round's tool_messages before the call is entered
MessagesAtCall == IF InCreate THEN messages ELSE MessagesAfterRound

\* state.current_round when the call after a round is made: incremented
\* before the call is entered
RoundAtCall == IF InCreate THEN current_round ELSE NextRound(current_round)

\* after a round the orchestrator extends the history, counts the round and
\* enters client.messages.create for its intermediate or final call, where
\* another call on the same generator can run before it returns
LaterCallEntered ==
  /\ profile = "concurrent"
  /\ RoundDone
  /\ messages' = MessagesAfterRound
  /\ current_round' = NextRound(current_round)
  /\ IF ShouldMakeFinalCall(NextRound(current_round), max_rounds)
       THEN /\ calls' = Append(calls, FinalApiParams(MessagesAfterRound, system))
            /\ pc' = "create_final"
       ELSE /\ calls' =
                 Append(calls, IntermediateApiParams(MessagesAfterRound, system))
            /\ pc' = "create_intermediate"
  /\ UNCHANGED <<entry, tool_manager, system, max_rounds, last_response,
                 tool_results, idx, responses, dispatches, result, exit>>
  /\ UNCHANGED <<registryVars, aloneVars>>

\* the final response examined like any other: its tool requests are executed
FinalCallReturns_Inspects ==
  /\ RoundDone
  /\ ShouldMakeFinalCall(NextRound(current_round), max_rounds)
  /\ messages' = MessagesAfterRound
  /\ current_round' = NextRound(current_round)
  /\ calls' = Append(calls, FinalApiParams(MessagesAfterRound, system))
  /\ \E r \in LaterResponses(Len(responses) + 1) :
       /\ responses' = Append(responses, r)
       /\ last_response' = r
       /\ IF has_tool_use_blocks(r)
            THEN /\ tool_results' = <<>>
                 /\ idx' = NextToolUse(r.content, 1)
                 /\ pc' = "exec"
                 /\ UNCHANGED <<result, exit>>
            ELSE /\ result' = Returned(extract_text_from_response(r))
                 /\ exit' = "final"
                 /\ pc' = "done"
                 /\ UNCHANGED <<tool_results, idx>>
  /\ UNCHANGED <<entry, tool_manager, system, max_rounds, dispatches>>
  /\ UNCHANGED <<registryVars, aloneVars>>

\* the round budget is used up: the final call, whose text is returned
FinalCallReturns ==
  /\ AtFinalCall
  /\ messages' = MessagesAtCall
  /\ current_round' = RoundAtCall
  /\ calls' = CallsWith(FinalApiParams(MessagesAtCall, system))
  /\ \E r \in LaterResponses(Len(responses) + 1) :
       /\ responses' = Append(responses, r)
       /\ result' = Returned(extract_text_from_response(r))
  /\ exit' = "final"
  /\ pc' = "done"
  /\ UNCHANGED <<entry, tool_manager, system, max_rounds, last_response,
                 tool_results, idx, dispatches>>
  /\ UNCHANGED <<registryVars, aloneVars>>

\* the final call's exception caught and turned into an answer text
FinalCallRaises_Caught ==
  /\ RoundDone
  /\ ShouldMakeFinalCall(NextRound(current_round), max_rounds)
  /\ messages' = MessagesAfterRound
  /\ current_round' = NextRound(current_round)
  /\ calls' = Append(calls, FinalApiParams(MessagesAfterRound, system))
  /\ \E e \in ModelErrors : result' = Returned(handle_tool_error(e))
  /\ exit' = "raise_final"
  /\ pc' = "done"
  /\ UNCHANGED <<entry, tool_manager, system, max_rounds, last_response,
                 tool_results, idx, responses, dispatches>>
  /\ UNCHANGED <<registryVars, aloneVars>>

\* the final call raises: the exception leaves the orchestrator
FinalCallRaises ==
  /\ AtFinalCall
  /\ messages' = MessagesAtCall
  /\ current_round' = RoundAtCall
  /\ calls' = CallsWith(FinalApiParams(MessagesAtCall, system))
  /\ \E e \in ModelErrors : result' = Raised(e)
  /\ exit' = "raise_final"
  /\ pc' = "done"
  /\ UNCHANGED <<entry, tool_manager, system, max_rounds, last_response,
                 tool_results, idx, responses, dispatches>>
  /\ UNCHANGED <<registryVars, aloneVars>>

\* rounds are left: the intermediate call, whose response the loop examines next
IntermediateCallReturns ==
  /\ AtIntermediateCall
  /\ messages' = MessagesAtCall
  /\ current_round' = RoundAtCall
  /\ calls' = CallsWith(IntermediateApiParams(MessagesAtCall, system))
  /\ \E r \in LaterResponses(Len(responses) + 1) :
       /\ responses' = Append(responses, r)
       /\ last_response' = r
  /\ pc' = "loop"
  /\ UNCHANGED <<entry, tool_manager, system, max_rounds, tool_results, idx,
                 dispatches, result, exit>>
  /\ UNCHANGED <<registryVars, aloneVars>>

\* the intermediate call raises: the exception leaves the orchestrator
IntermediateCallRaises ==
  /\ AtIntermediateCall
  /\ messages' = MessagesAtCall
  /\ current_round' = RoundAtCall
  /\ calls' = CallsWith(IntermediateApiParams(MessagesAtCall, system))
  /\ \E e \in ModelErrors : result' = Raised(e)
  /\ exit' = "raise_intermediate"
  /\ pc' = "done"
  /\ UNCHANGED <<entry, tool_manager, system, max_rounds, last_response,
                 tool_results, idx, responses, dispatches>>
  /\ UNCHANGED <<registryVars, aloneVars>>

(* ------------------------ one query after another --------------------- *)

\* the caller turns to its next top-level query: it calls reset_sources()
\* before the query starts
NewQuery ==
  /\ pc = "done"
  /\ query_no < MaxQueries
  /\ last_sources' = reset_sources(last_sources)
  /\ query_no' = query_no + 1
  /\ pc' = NoQuery.pc
  /\ entry' = NoQuery.entry
  /\ tool_manager' = NoQuery.tool_manager
  /\ system' = NoQuery.system
  /\ messages' = NoQuery.messages
  /\ current_round' = NoQuery.current_round
  /\ max_rounds' = NoQuery.max_rounds
  /\ last_response' = NoQuery.last_response
  /\ tool_results' = NoQuery.tool_results
  /\ idx' = NoQuery.idx
  /\ calls' = NoQuery.calls
  /\ responses' = NoQuery.responses
  /\ dispatches' = NoQuery.dispatches
  /\ result' = NoQuery.result
  /\ exit' = NoQuery.exit
  /\ UNCHANGED <<profile, registered, registry_calls>>
  /\ UNCHANGED aloneVars

\* the query variables of a state in which no query is being served
QueryVarsAre(q) ==
  /\ pc = q.pc
  /\ entry = q.entry
  /\ tool_manager = q.tool_manager
  /\ system = q.system
  /\ messages = q.messages
  /\ current_round = q.current_round
  /\ max_rounds = q.max_rounds
  /\ last_response = q.last_response
  /\ tool_results = q.tool_results
  /\ idx = q.idx
  /\ calls = q.calls
  /\ responses = q.responses
  /\ dispatches = q.dispatches
  /\ result = q.result
  /\ exit = q.exit

\* RAGSystem.query serves the queries: the registry holds the tools RAGSystem
\* registered, and generate_response is given its schemas and the registry
InitFrontDoor ==
  /\ profile = "front_door"
  /\ registered \in Registrations
  /\ last_sources = NoSources(registered)
  /\ query_no = 1
  /\ registry_calls = <<>>
  /\ NothingAlone
  /\ QueryVarsAre(NoQuery)

\* the Config objects the environment variable MAX_TOOL_ROUNDS can give
Configs == {[MAX_TOOL_ROUNDS |-> n] : n \in 0..MaxConfiguredRounds}

\* RAGSystem.query serves the queries of a service configured in any way
InitConfig ==
  /\ profile = "config"
  /\ registered = <<SearchToolName, OutlineToolName>>
  /\ last_sources = NoSources(registered)
  /\ query_no = 1
  /\ registry_calls = <<>>
  /\ args = NoArgs
  /\ tool_of = FirstTools(registered)
  /\ startup = NoStartup
  /\ sessions = <<>>
  /\ http = <<>>
  /\ new_sessions = <<>>
  /\ config \in Configs
  /\ OneCall
  /\ QueryVarsAre(NoQuery)

(* ----------------------- the tool manager alone ----------------------- *)

\* the j-th source a tool named n holds
HeldSource(n, j) ==
  [name |-> "source " \o Digit[j] \o " of " \o n, query |-> 1]

\* the source lists a tool named n can hold
HeldSources(n) == {[j \in 1..k |-> HeldSource(n, j)] : k \in 0..MaxSources}

\* no tool, one tool, or both tools in either order
RegistryShapes == Registrations \cup {<<>>, <<OutlineToolName>>}

\* a tool manager whose tools hold any sources
InitRegistry ==
  /\ profile = "registry"
  /\ registered \in RegistryShapes
  /\ last_sources \in
       [{registered[i] : i \in 1..Len(registered)} ->
          HeldSources(SearchToolName) \cup HeldSources(OutlineToolName)]
  /\ \A n \in DOMAIN last_sources : last_sources[n] \in HeldSources(n)
  /\ query_no = 1
  /\ registry_calls = <<>>
  /\ NothingAlone
  /\ QueryVarsAre([NoQuery EXCEPT !.pc = "registry"])

RegistryCall(op, value) == [op |-> op, value |-> value]

\* tool_manager.get_last_sources() is called
GetLastSourcesCalled ==
  /\ pc = "registry"
  /\ Len(registry_calls) < MaxRegistryCalls
  /\ registry_calls' =
       Append(registry_calls,
              RegistryCall("get_last_sources",
                           collect_sources(registered, last_sources)))
  /\ UNCHANGED <<queryVars, profile, registered, last_sources, query_no>>
  /\ UNCHANGED aloneVars

\* tool_manager.reset_sources() is called
ResetSourcesCalled ==
  /\ pc = "registry"
  /\ Len(registry_calls) < MaxRegistryCalls
  /\ last_sources' = reset_sources(last_sources)
  /\ registry_calls' =
       Append(registry_calls, RegistryCall("reset_sources", <<>>))
  /\ UNCHANGED <<queryVars, profile, registered, query_no>>
  /\ UNCHANGED aloneVars

\* tool_manager.get_tool_definitions() is called
GetToolDefinitionsCalled ==
  /\ pc = "registry"
  /\ Len(registry_calls) < MaxRegistryCalls
  /\ registry_calls' =
       Append(registry_calls, RegistryCall("get_tool_definitions", ToolSchemas))
  /\ UNCHANGED <<queryVars, profile, registered, last_sources, query_no>>
  /\ UNCHANGED aloneVars

\* tool_manager.register_tool(tool) is called with a new tool object, which
\* holds any sources, none included, when it is handed over
RegisterToolCalled ==
  /\ pc = "registry"
  /\ Len(registry_calls) < MaxRegistryCalls
  /\ \E name \in {SearchToolName, OutlineToolName} :
       \E held \in HeldSources(name) :
         /\ registered' = RegisterNames(registered, name)
         /\ tool_of' = RegisterTool(registered, tool_of, name)
         /\ last_sources' = SourcesAfterRegister(last_sources, name, held)
         /\ registry_calls' =
              Append(registry_calls,
                     RegistryCall("register_tool",
                                  [name |-> name,
                                   tool |-> NextTool(registered, tool_of, name),
                                   sources |-> held]))
  /\ UNCHANGED <<queryVars, profile, query_no>>
  /\ UNCHANGED <<args, startup, sessions, http, new_sessions, config>>
  /\ UNCHANGED <<run, parked, base_params>>

\* the tool object execute_tool reaches under a name, 0 when there is none
ToolReached(reg, tools, name) ==
  IF IsRegistered(reg, name) THEN tools[name] ELSE 0

\* tool_manager.execute_tool(name, course_name=...) is called
ExecuteToolCalled ==
  /\ pc = "registry"
  /\ Len(registry_calls) < MaxRegistryCalls
  /\ \E name \in {SearchToolName, OutlineToolName}, c \in CourseNames :
       LET inv == Invocation(Len(registry_calls) + 1, name, c) IN
         \E o \in ExecuteOutcomesFor(registered, inv) :
           /\ last_sources' =
                SourcesAfterExecute(last_sources, registered, query_no, inv, o)
           /\ registry_calls' =
                Append(registry_calls,
                       RegistryCall("execute_tool",
                                    [name |-> name,
                                     course_name |-> c,
                                     tool |-> ToolReached(registered, tool_of,
                                                          name),
                                     outcome |-> o]))
  /\ UNCHANGED <<queryVars, profile, registered, query_no>>
  /\ UNCHANGED aloneVars

NextRegistry ==
  \/ GetLastSourcesCalled
  \/ ResetSourcesCalled
  \/ GetToolDefinitionsCalled
  \/ RegisterToolCalled
  \/ ExecuteToolCalled

RegistrySpec == InitRegistry /\ [][NextRegistry]_vars

(* ------------------- _extract_text_from_response alone ----------------- *)

\* the responses a caller hands to _extract_text_from_response
ExtractInputs ==
  {Response(sr, c) : sr \in StopReasons, c \in ContentsUpTo(1, MaxBlocks + 1)}

InitExtract ==
  /\ profile = "extract"
  /\ registered = <<SearchToolName, OutlineToolName>>
  /\ last_sources = NoSources(registered)
  /\ query_no = 1
  /\ registry_calls = <<>>
  /\ NothingAlone
  /\ \E r \in ExtractInputs :
       QueryVarsAre([NoQuery EXCEPT !.pc = "extract", !.last_response = r])

\* _extract_text_from_response(last_response) is called
ExtractTextCalled ==
  /\ pc = "extract"
  /\ entry' = "_extract_text_from_response"
  /\ result' = Returned(extract_text_from_response(last_response))
  /\ pc' = "extracted"
  /\ UNCHANGED <<tool_manager, system, messages, current_round, max_rounds,
                 last_response, tool_results, idx, calls, responses,
                 dispatches, exit>>
  /\ UNCHANGED <<registryVars, aloneVars>>

NextExtract == ExtractTextCalled

ExtractSpec == InitExtract /\ [][NextExtract]_vars

(* ------------- the first api_params of generate_response alone --------- *)

\* the query argument
PromptQueries == {"Q", "", "What is MCP?", "Previous conversation:"}

\* the conversation_history argument: left out, empty, blank, one line, two
PromptHistories == {None, "", " ", "H", "User: a\nAssistant: b"}

\* the tools argument; None and [] are both <<>>, which Python reads as false
PromptTools == {<<>>, <<SearchToolName>>, <<SearchToolName, OutlineToolName>>}

GenerateResponseArgs(q, h, t) ==
  [kind |-> "generate_response", query |-> q, conversation_history |-> h,
   tools |-> t]

InitPrompt ==
  /\ profile = "prompt"
  /\ registered = <<SearchToolName, OutlineToolName>>
  /\ last_sources = NoSources(registered)
  /\ query_no = 1
  /\ registry_calls = <<>>
  /\ \E q \in PromptQueries, h \in PromptHistories, t \in PromptTools :
       args = GenerateResponseArgs(q, h, t)
  /\ tool_of = FirstTools(registered)
  /\ startup = NoStartup
  /\ sessions = <<>>
  /\ http = <<>>
  /\ new_sessions = <<>>
  /\ config = DefaultConfig
  /\ OneCall
  /\ QueryVarsAre([NoQuery EXCEPT !.pc = "prompt"])

\* generate_response(args) builds system_content and the api_params of its
\* first call
FirstParamsBuilt ==
  /\ pc = "prompt"
  /\ entry' = "generate_response"
  /\ system' = SystemContent(args.conversation_history)
  /\ calls' =
       <<FirstApiParams(args.query, args.conversation_history, args.tools)>>
  /\ pc' = "prompted"
  /\ UNCHANGED <<tool_manager, messages, current_round, max_rounds,
                 last_response, tool_results, idx, responses, dispatches,
                 result, exit>>
  /\ UNCHANGED <<registryVars, aloneVars>>

NextPrompt == FirstParamsBuilt

PromptSpec == InitPrompt /\ [][NextPrompt]_vars

(* ------------------------------- app.py -------------------------------- *)

\* how many requests POST /api/query serves
MaxRequests == 2

\* what client.messages.create does for the probe of test_connection
ProbeOutcomes == {Returned("pong")} \cup {Raised(e) : e \in ModelErrors}

\* the pair test_connection returns
ConnectionResult(success, message) ==
  [kind |-> "return", success |-> success, message |-> message]

\* test_connection without its except clause
test_connection_Unguarded(probe) ==
  IF probe.kind = "return"
    THEN ConnectionResult(TRUE, "Connection successful")
    ELSE Raised(probe.message)

\* AIGenerator.test_connection, given what the probe call did
test_connection(probe) ==
  IF probe.kind = "return"
    THEN ConnectionResult(TRUE, "Connection successful")
    ELSE ConnectionResult(FALSE, "Connection failed: " \o probe.message)

HTTPException(status_code, detail) ==
  [kind |-> "raise", status_code |-> status_code, detail |-> detail]

\* what startup_event finds at docs_path: no such path, a folder that
\* add_course_folder loads, a folder on which add_course_folder raises
DocsOutcomes == {"absent", "loaded", "load_raises"}

\* startup going on whatever test_connection reports
Connected_Always(connection) == TRUE

\* test_connection returned and reported success
Connected(connection) == connection.kind = "return" /\ connection.success

\* the record of one run of startup_event
Startup(probe, connection, docs) ==
  [kind |-> "startup",
   probe |-> probe,
   connection |-> connection,
   steps |->
     IF Connected(connection) /\ docs # "absent"
       THEN <<"test_connection", "add_course_folder">>
       ELSE <<"test_connection">>,
   loaded |-> Connected(connection) /\ docs = "loaded",
   docs |-> IF Connected(connection) THEN docs ELSE "not examined",
   logged |->
     <<"info: Testing LLM connection...">>
       \o (IF connection.kind = "raise"
             THEN <<>>
             ELSE IF ~Connected(connection)
                    THEN <<"error: LLM connection test failed">>
                    ELSE <<"info: LLM connection test",
                           "info: Loading initial documents">>
                           \o (IF docs = "absent"
                                 THEN <<"warning: Documents path does not exist">>
                                 ELSE IF docs = "loaded"
                                        THEN <<"info: Successfully loaded">>
                                        ELSE <<"error: Error loading documents">>)),
   raised |->
     IF Connected(connection)
       THEN NoResult
       ELSE IF connection.kind = "raise"
              THEN connection
              ELSE HTTPException(500, "LLM connection test failed")]

\* startup_event of app.py
StartupEvent ==
  /\ pc = "boot"
  /\ \E probe \in ProbeOutcomes, docs \in DocsOutcomes :
       LET connection == test_connection(probe) IN
         /\ startup' = Startup(probe, connection, docs)
         /\ pc' = IF Connected(connection) THEN "serving" ELSE "startup_failed"
  /\ UNCHANGED <<entry, tool_manager, system, messages, current_round,
                 max_rounds, last_response, tool_results, idx, calls,
                 responses, dispatches, result, exit>>
  /\ UNCHANGED <<registryVars, args, tool_of, sessions, http, new_sessions, config>>
  /\ UNCHANGED <<run, parked, base_params>>

\* the session_id field of a request: left out, empty, the id of a session
RequestSessionIds == {None, "", "existing_session_123"}

QueryRequest(query, session_id) == [query |-> query, session_id |-> session_id]

\* str(e) of what session_manager.create_session or rag_system.query raises
AppErrors == {"RAG system error", "e2"}

\* what session_manager.create_session does: it returns an id it has not
\* returned before, or raises
CreateSessionOutcomes(created) ==
  {Returned("session_" \o Digit[Len(created) + 1])}
    \cup {Raised(e) : e \in AppErrors}

\* what rag_system.query does: it returns (answer, sources) or raises
RagQueryOutcomes ==
  {[kind |-> "return", answer |-> "A", sources |-> <<>>]}
    \cup {Raised(e) : e \in AppErrors}

\* a session is created for every request but those whose session_id is None
NeedsSession_NoneOnly(session_id) == session_id # None

\* if not session_id
NeedsSession(session_id) == ~Truthy(session_id)

\* the detail of every error response is a fixed text
ErrorDetail_Fixed(message) == "Internal Server Error"

\* str(e)
ErrorDetail(message) == message

QueryResponse(answer, sources, session_id) ==
  [kind |-> "return", status_code |-> 200, answer |-> answer,
   sources |-> sources, session_id |-> session_id]

\* the calls query_documents makes on its collaborators, in order, given what
\* create_session does when called
CollaboratorCalls(request, created) ==
  IF NeedsSession(request.session_id)
    THEN IF created.kind = "raise"
           THEN <<[op |-> "create_session"]>>
           ELSE <<[op |-> "create_session"],
                  [op |-> "query", query |-> request.query,
                   session_id |-> created.text]>>
    ELSE <<[op |-> "query", query |-> request.query,
            session_id |-> request.session_id]>>

\* what query_documents hands the client, given what its collaborators do
QueryDocumentsResponse(request, created, answered) ==
  IF NeedsSession(request.session_id) /\ created.kind = "raise"
    THEN HTTPException(500, ErrorDetail(created.message))
    ELSE IF answered.kind = "raise"
           THEN HTTPException(500, ErrorDetail(answered.message))
           ELSE QueryResponse(answered.answer, answered.sources,
                              IF NeedsSession(request.session_id)
                                THEN created.text
                                ELSE request.session_id)

\* the record of one request served
Served(request, created, answered) ==
  [request |-> request,
   calls |-> CollaboratorCalls(request, created),
   raised |->
     IF NeedsSession(request.session_id) /\ created.kind = "raise"
       THEN created.message
       ELSE IF answered.kind = "raise" THEN answered.message ELSE None,
   response |-> QueryDocumentsResponse(request, created, answered)]

\* POST /api/query: query_documents of app.py
QueryDocuments ==
  /\ pc = "serving"
  /\ Len(http) < MaxRequests
  /\ \E q \in Queries, sid \in RequestSessionIds,
        created \in CreateSessionOutcomes(sessions),
        answered \in RagQueryOutcomes :
       LET request == QueryRequest(q, sid) IN
         /\ http' = Append(http, Served(request, created, answered))
         /\ sessions' =
              IF NeedsSession(sid) /\ created.kind = "return"
                THEN Append(sessions, created.text)
                ELSE sessions
  /\ UNCHANGED <<queryVars, registryVars, args, tool_of, startup, config>>
  /\ UNCHANGED <<new_sessions, run, parked, base_params>>

NewSessionResponse(session_id) ==
  [kind |-> "return", status_code |-> 200, session_id |-> session_id]

\* what create_new_session hands the client, given what create_session does
CreateNewSessionResponse(created) ==
  IF created.kind = "raise"
    THEN HTTPException(500, ErrorDetail(created.message))
    ELSE NewSessionResponse(created.text)

\* POST /api/session/new: create_new_session of app.py
CreateNewSession ==
  /\ pc = "serving"
  /\ Len(new_sessions) < MaxRequests
  /\ \E created \in CreateSessionOutcomes(sessions) :
       /\ new_sessions' =
            Append(new_sessions, CreateNewSessionResponse(created))
       /\ sessions' =
            IF created.kind = "return"
              THEN Append(sessions, created.text)
              ELSE sessions
  /\ UNCHANGED <<queryVars, registryVars, args, tool_of, startup, config>>
  /\ UNCHANGED <<http, run, parked, base_params>>

InitApp ==
  /\ profile = "app"
  /\ registered = <<SearchToolName, OutlineToolName>>
  /\ last_sources = NoSources(registered)
  /\ query_no = 1
  /\ registry_calls = <<>>
  /\ NothingAlone
  /\ QueryVarsAre([NoQuery EXCEPT !.pc = "boot"])

NextApp ==
  \/ StartupEvent
  \/ QueryDocuments
  \/ CreateNewSession

AppSpec == InitApp /\ [][NextApp]_vars

(* ------------------ two generate_response calls at once ---------------- *)

\* the locals of the running generate_response call and the fields of its
\* _ToolCallingState
Frame ==
  [pc |-> pc, entry |-> entry, tool_manager |-> tool_manager,
   system |-> system, messages |-> messages, current_round |-> current_round,
   max_rounds |-> max_rounds, last_response |-> last_response,
   tool_results |-> tool_results, idx |-> idx, calls |-> calls,
   responses |-> responses, dispatches |-> dispatches, result |-> result,
   exit |-> exit]

\* the frame a call resumes with when its state is kept on the generator,
\* the one _ToolCallingState serving every call
ResumedFrame_StateOnGenerator(saved, live) ==
  [saved EXCEPT !.messages = live.messages,
                !.current_round = live.current_round,
                !.max_rounds = live.max_rounds,
                !.last_response = live.last_response]

\* the frame a call resumes with: its own locals and its own
\* _ToolCallingState, which _initialize_tool_calling_state built for it
ResumedFrame(saved, live) == saved

\* one generator serves two queries at once
InitConcurrent ==
  /\ profile = "concurrent"
  /\ registered = <<SearchToolName, OutlineToolName>>
  /\ last_sources = NoSources(registered)
  /\ query_no = 1
  /\ registry_calls = <<>>
  /\ NothingAlone
  /\ QueryVarsAre(NoQuery)

\* the running call is suspended and the other one goes on
SwitchRun ==
  /\ profile = "concurrent"
  /\ run' = 3 - run
  /\ parked' = Frame
  /\ LET q == ResumedFrame(parked, Frame) IN
       /\ pc' = q.pc
       /\ entry' = q.entry
       /\ tool_manager' = q.tool_manager
       /\ system' = q.system
       /\ messages' = q.messages
       /\ current_round' = q.current_round
       /\ max_rounds' = q.max_rounds
       /\ last_response' = q.last_response
       /\ tool_results' = q.tool_results
       /\ idx' = q.idx
       /\ calls' = q.calls
       /\ responses' = q.responses
       /\ dispatches' = q.dispatches
       /\ result' = q.result
       /\ exit' = q.exit
  /\ UNCHANGED <<registryVars, args, tool_of, startup, sessions, http, new_sessions, config,
                 base_params>>

NextConcurrent ==
  \/ SwitchRun
  \/ FirstCallEntered
  \/ LaterCallEntered
  \/ GenerateResponseRaises
  \/ GenerateResponseDirect
  \/ GenerateResponseDelegates
  \/ EarlyTermination
  \/ BeginRound
  \/ DispatchReturns
  \/ DispatchRaises
  \/ FinalCallReturns
  \/ FinalCallRaises
  \/ IntermediateCallReturns
  \/ IntermediateCallRaises

ConcurrentSpec == InitConcurrent /\ [][NextConcurrent]_vars

(* ------------------------------ the system ---------------------------- *)

Next ==
  \/ NewQuery
  \/ GenerateResponseRaises
  \/ GenerateResponseDirect
  \/ GenerateResponseDelegates
  \/ HandleToolExecutionCalled
  \/ LoopExit
  \/ EarlyTermination
  \/ BeginRound
  \/ DispatchReturns
  \/ DispatchRaises
  \/ FinalCallReturns
  \/ FinalCallRaises
  \/ IntermediateCallReturns
  \/ IntermediateCallRaises

Spec == Init /\ [][Next]_vars

\* every call made returns or raises: a run that can take a step takes one
FairSpec == Spec /\ WF_vars(Next)

\* the queries RAGSystem.query serves
\* RAGSystem.query enters through generate_response, never through
\* _handle_tool_execution itself
NextFrontDoor ==
  \/ NewQuery
  \/ GenerateResponseRaises
  \/ GenerateResponseDirect
  \/ GenerateResponseDelegates
  \/ EarlyTermination
  \/ BeginRound
  \/ DispatchReturns
  \/ DispatchRaises
  \/ FinalCallReturns
  \/ FinalCallRaises
  \/ IntermediateCallReturns
  \/ IntermediateCallRaises

FrontDoorSpec == InitFrontDoor /\ [][NextFrontDoor]_vars

\* the queries of a service whose MAX_TOOL_ROUNDS is set in any way
ConfigSpec == InitConfig /\ [][NextFrontDoor]_vars

(* ------------------------ vocabulary of the claims -------------------- *)

Min(a, b) == IF a <= b THEN a ELSE b

Last(seq) == seq[Len(seq)]

RECURSIVE TextUpTo(_, _)
\* the payloads of the text blocks among the first n blocks, left to right
TextUpTo(content, n) ==
  IF n = 0
    THEN ""
    ELSE TextUpTo(content, n - 1)
           \o (IF content[n].type = "text" THEN content[n].text ELSE "")

TextOf(response) == TextUpTo(response.content, Len(response.content))

IsToolUse(b) == b.type = "tool_use"

\* the tool-invocation blocks of a content list, in order
ToolUseBlocks(content) == SelectSeq(content, IsToolUse)

\* the number of leading responses that hold a tool-invocation block
RoundsNeeded ==
  Cardinality({n \in 1..Len(responses) :
                 \A k \in 1..n : ToolUseBlocks(responses[k].content) # <<>>})

Done == pc = "done"

ViaGenerateResponse == entry = "generate_response"

\* the run went through the orchestrator
Orchestrated == entry # "none" /\ exit \notin {"direct", "raise_first"}

AnyDispatchRaised ==
  \E k \in 1..Len(dispatches) : dispatches[k].outcome.kind = "raise"

(* -------------------------------- C1 ---------------------------------- *)

\* C1: a generate_response run that entered the orchestrator and in which no
\* dispatch raised has made min(rounds_needed, max_rounds) + 1 model calls
\* when it ends, the first call included.
C1_CallCount ==
  (Done /\ ViaGenerateResponse /\ Orchestrated /\ ~AnyDispatchRaised)
    => Len(calls) = Min(RoundsNeeded, max_rounds) + 1

\* the budget cuts the count: three tool-requesting responses, three calls
C1_Witness ==
  /\ Done /\ ViaGenerateResponse /\ exit = "final"
  /\ RoundsNeeded = 3
  /\ Len(calls) = 3

(* -------------------------------- C2 ---------------------------------- *)

\* C2: when the first response of a generate_response call holds no
\* tool-invocation block, one model call is made, no tool is dispatched and
\* the text returned is the in-order concatenation of its text blocks.
C2_NoToolBlocks ==
  (ViaGenerateResponse /\ responses # <<>>
     /\ ToolUseBlocks(responses[1].content) = <<>>)
    => /\ Len(calls) = 1
       /\ dispatches = <<>>
       /\ pc # "exec"
       /\ Done => result = Returned(TextOf(responses[1]))

\* two text blocks, through the orchestrator's early exit
C2_Witness ==
  /\ Done /\ ViaGenerateResponse /\ exit = "early"
  /\ responses[1].content = <<TextBlock("A"), TextBlock("B")>>
  /\ result = Returned("AB")

(* -------------------------------- C3 ---------------------------------- *)

\* C3: the step after a fully dispatched round that brings the round counter
\* to max_rounds makes one model call, with the accumulated history and the
\* system content and neither tools nor tool_choice, and ends the run; when
\* the call returns, the answer is the text of its response.
C3_FinalCall ==
  [][(pc = "exec" /\ current_round' # current_round
        /\ current_round' = max_rounds)
       => /\ Len(calls') = Len(calls) + 1
          /\ SubSeq(calls', 1, Len(calls)) = calls
          /\ Last(calls').messages = messages'
          /\ Len(messages') = 1 + 2 * max_rounds
          /\ SubSeq(messages', 1, Len(messages)) = messages
          /\ Last(calls').system = system
          /\ ~Last(calls').has_tools
          /\ Last(calls').tools = <<>>
          /\ ~Last(calls').has_tool_choice
          /\ pc' = "done"
          /\ \/ result'.kind = "raise" /\ responses' = responses
             \/ /\ Len(responses') = Len(responses) + 1
                /\ result' = Returned(TextOf(Last(responses')))]_vars

\* the default budget used up: the third call carries five turns and no tools
C3_Witness ==
  /\ Done /\ ViaGenerateResponse /\ exit = "final"
  /\ current_round = max_rounds
  /\ Len(calls) = 3
  /\ Len(Last(calls).messages) = 5
  /\ ~Last(calls).has_tools

(* -------------------------------- C4 ---------------------------------- *)

\* C4: once a dispatch has raised, the run is over: that dispatch is the last
\* one made, the blocks after it in the response are not dispatched, no model
\* call follows the failing round and the round counter stays at that round.
C4_AbortOnRaise ==
  \A k \in 1..Len(dispatches) :
    dispatches[k].outcome.kind = "raise"
      => /\ Done
         /\ k = Len(dispatches)
         /\ current_round = dispatches[k].round
         /\ Len(calls) = current_round + (IF ViaGenerateResponse THEN 1 ELSE 0)
         /\ Len(messages) = 1 + 2 * current_round

\* the first of two requested tools raises: the second is never dispatched
C4_Witness ==
  /\ Done /\ exit = "tool_error"
  /\ Len(ToolUseBlocks(last_response.content)) = 2
  /\ Len(dispatches) = 1
  /\ dispatches[1].id = ToolUseBlocks(last_response.content)[1].id

(* -------------------------------- C5 ---------------------------------- *)

ErrorPrefix == "I encountered an error while searching: "

\* C5 as claimed: the answer is the prefix immediately followed by the
\* exception's message.
C5_PrefixThenMessage ==
  (Done /\ exit = "tool_error")
    => result = Returned(ErrorPrefix \o Last(dispatches).outcome.message)

\* C5: when a dispatch raises with message m the answer is the prefix, then
\* "Tool execution failed: ", then m.
C5_PrefixWrapperMessage ==
  (Done /\ AnyDispatchRaised)
    => result =
         Returned(ErrorPrefix \o "Tool execution failed: "
                    \o Last(dispatches).outcome.message)

\* a dispatch of the second round raises with message m1
C5_Witness ==
  /\ Done /\ exit = "tool_error"
  /\ Last(dispatches).outcome = Raised("m1")
  /\ Last(dispatches).round = 1

(* -------------------------------- C6 ---------------------------------- *)

\* the dispatches made in round r (rounds counted from 0), in the order made
DispatchesOfRound(r) ==
  LET InRound(d) == d.round = r IN SelectSeq(dispatches, InRound)

\* C6: every completed round has appended its assistant turn and then one
\* user turn; the user turn holds one tool result per tool-invocation block
\* of that assistant turn, the i-th with the identifier of the i-th block and
\* the text the dispatch of that block returned.
C6_ResultsMatchInvocations ==
  /\ Len(messages) = (IF entry = "none" \/ ~Orchestrated THEN 0 ELSE 1)
                       + 2 * current_round
  /\ \A k \in 1..current_round :
       LET asst == messages[2 * k]
           user == messages[2 * k + 1]
           blocks == ToolUseBlocks(asst.content)
           made == DispatchesOfRound(k - 1)
       IN /\ asst.role = "assistant"
          /\ user.role = "user"
          /\ Len(user.content) = Len(blocks)
          /\ Len(made) = Len(blocks)
          /\ \A i \in 1..Len(blocks) :
               /\ user.content[i].type = "tool_result"
               /\ user.content[i].tool_use_id = blocks[i].id
               /\ made[i].id = blocks[i].id
               /\ made[i].outcome = Returned(user.content[i].content)

\* a round of two invocations whose dispatches returned different texts
C6_Witness ==
  /\ current_round >= 1
  /\ Len(ToolUseBlocks(messages[2].content)) = 2
  /\ Len(messages[3].content) = 2
  /\ messages[3].content[1].content # messages[3].content[2].content

(* -------------------------------- C7 ---------------------------------- *)

\* the tool results of turn p of a history that answer identifier id
AnswersTo(history, p, id) ==
  {i \in 1..Len(history[p].content) : history[p].content[i].tool_use_id = id}

\* C7: in the history of every model call made, each tool-invocation block
\* of an assistant turn has exactly one tool result with its identifier in
\* the user turn right after that assistant turn.
C7_NoUnansweredInvocation ==
  \A c \in 1..Len(calls) :
    LET history == calls[c].messages IN
      \A p \in 1..Len(history) :
        history[p].role = "assistant"
          => \A b \in 1..Len(history[p].content) :
               IsToolUse(history[p].content[b])
                 => /\ p < Len(history)
                    /\ history[p + 1].role = "user"
                    /\ Cardinality(
                         AnswersTo(history, p + 1, history[p].content[b].id)) = 1

\* a final call whose history holds two answered rounds, one with two tools
C7_Witness ==
  /\ Len(calls) = 3
  /\ Last(calls).site = "final"
  /\ Len(Last(calls).messages) = 5
  /\ Len(ToolUseBlocks(Last(calls).messages[4].content)) = 2

(* -------------------------------- C8 ---------------------------------- *)

\* every tool-invocation block of the current response has been dispatched
\* in this round and every one of these dispatches returned
RoundAllSucceeded ==
  /\ pc = "exec"
  /\ Len(DispatchesOfRound(current_round))
       = Len(ToolUseBlocks(last_response.content))
  /\ \A i \in 1..Len(DispatchesOfRound(current_round)) :
       DispatchesOfRound(current_round)[i].outcome.kind = "return"

\* C8 as claimed: the round counter is 0 when the orchestrator starts, moves
\* only from r to r + 1 and only at the end of a round whose dispatches all
\* returned, stays within 0..max_rounds, and max_rounds is the same all
\* through the run.
C8_RoundCounter ==
  /\ [](pc \in {"loop", "exec"} => (0 <= current_round /\ current_round <= max_rounds))
  /\ [](Done /\ Orchestrated => current_round <= max_rounds)
  /\ [][/\ (pc = "idle" /\ pc' = "loop") => current_round' = 0
        /\ pc \in {"loop", "exec"} => max_rounds' = max_rounds
        /\ pc \in {"loop", "exec"} =>
             \/ current_round' = current_round
             \/ current_round' = current_round + 1 /\ RoundAllSucceeded]_vars

\* the rounds a budget allows: none when max_rounds is negative
RoundsAllowed == IF max_rounds < 0 THEN 0 ELSE max_rounds

\* C8: the round counter is 0 when the orchestrator starts, moves only from
\* r to r + 1 and only at the end of a round whose dispatches all returned,
\* never exceeds max_rounds when max_rounds is not negative and stays 0 when
\* it is negative, and max_rounds is the same all through the run.
C8_RoundCounterWithinAllowed ==
  /\ [](pc \in {"loop", "exec"} =>
          (0 <= current_round /\ current_round <= RoundsAllowed))
  /\ [](Done /\ Orchestrated => current_round <= RoundsAllowed)
  /\ [](Orchestrated /\ max_rounds < 0 => current_round = 0)
  /\ [][/\ (pc = "idle" /\ pc' = "loop") => current_round' = 0
        /\ pc \in {"loop", "exec"} => max_rounds' = max_rounds
        /\ pc \in {"loop", "exec"} =>
             \/ current_round' = current_round
             \/ current_round' = current_round + 1 /\ RoundAllSucceeded]_vars

\* the default budget of two rounds, both counted
C8_Witness ==
  /\ Done /\ ViaGenerateResponse
  /\ max_rounds = 2
  /\ current_round = 2
  /\ Len(dispatches) >= 2

(* -------------------------------- C9 ---------------------------------- *)

\* the number of tool-invocation blocks of the first n responses
RECURSIVE ToolUseCount(_)
ToolUseCount(n) ==
  IF n = 0
    THEN 0
    ELSE ToolUseCount(n - 1) + Len(ToolUseBlocks(responses[n].content))

\* C9: once the final call is made the run is over: it is the last call, the
\* tools dispatched are those of the responses before it, and when it returns
\* the answer is the text of its response, tool-invocation blocks left out.
C9_FinalResponseNotInspected ==
  \A c \in 1..Len(calls) :
    calls[c].site = "final"
      => /\ Done
         /\ c = Len(calls)
         /\ exit \in {"final", "raise_final"}
         /\ exit = "final"
              => /\ result = Returned(TextOf(Last(responses)))
                 /\ Len(dispatches) = ToolUseCount(Len(responses) - 1)
         /\ exit = "raise_final"
              => Len(dispatches) = ToolUseCount(Len(responses))

\* the final response holds nothing but a tool request: the answer is empty
C9_Witness ==
  /\ Done /\ exit = "final"
  /\ Last(calls).site = "final"
  /\ Last(responses).content # <<>>
  /\ ToolUseBlocks(Last(responses).content) = Last(responses).content
  /\ result = Returned("")

(* -------------------------------- C10 --------------------------------- *)

InOrchestrator == pc \in {"loop", "exec"}

\* C10 as claimed: an orchestration run that has ended has left by early
\* termination, by the forced final call or by a fatal tool error.
C10_ThreeExits ==
  (Done /\ Orchestrated) => exit \in {"early", "final", "tool_error"}

\* C10: every orchestration run ends, after at most max_rounds rounds (none
\* when max_rounds is negative), by early termination, by the forced final call, by a fatal tool error, by an
\* exception of an intermediate or final model call, or, with max_rounds <= 0
\* only, by the return after the loop.
C10_Terminates ==
  /\ InOrchestrator ~> Done
  /\ [](Done /\ Orchestrated =>
          /\ exit \in {"early", "final", "tool_error", "raise_intermediate",
                       "raise_final", "fallback"}
          /\ exit = "fallback" => max_rounds <= 0
          /\ exit \in {"raise_intermediate", "raise_final"}
               => result.kind = "raise"
          /\ exit \in {"early", "final", "tool_error", "fallback"}
               => result.kind = "return"
          /\ current_round <= (IF max_rounds < 0 THEN 0 ELSE max_rounds))

\* a run ended by an intermediate model call that raised
C10_Witness ==
  /\ Done /\ ViaGenerateResponse
  /\ exit = "raise_intermediate"
  /\ current_round = 1
  /\ result = Raised("e1")

(* -------------------------------- C11 --------------------------------- *)

\* C11: generate_response enters the orchestrator exactly when the first
\* response's stop condition is tool use and a tool manager was passed; in
\* every other case the run is over after that one model call, without a
\* dispatch, and the answer is the text of the first response.
C11_DelegationIff ==
  (ViaGenerateResponse /\ responses # <<>>) =>
    /\ Orchestrated <=> (responses[1].stop_reason = "tool_use" /\ tool_manager)
    /\ ~Orchestrated =>
         /\ Done
         /\ Len(calls) = 1
         /\ dispatches = <<>>
         /\ messages = <<>>
         /\ result = Returned(TextOf(responses[1]))

\* tool use asked for, with tool-invocation blocks, and no tool manager
C11_Witness ==
  /\ Done
  /\ ViaGenerateResponse
  /\ Len(responses) = 1
  /\ responses[1].stop_reason = "tool_use"
  /\ ToolUseBlocks(responses[1].content) # <<>>
  /\ ~tool_manager
  /\ Len(calls) = 1
  /\ dispatches = <<>>
  /\ result = Returned("A")

(* -------------------------------- C12 --------------------------------- *)

\* a model call of this generate_response run was made and did not return
ModelCallFailed == Len(calls) > Len(responses)

\* C12 as claimed: every generate_response run that has ended, one with a
\* failed model call included, has handed its caller an answer text.
C12_AlwaysText == (Done /\ ViaGenerateResponse) => result.kind = "return"

\* C12: a generate_response run that has ended has handed its caller an
\* answer text exactly when no model call failed; a raising dispatch is
\* resolved into a text, and a failed model call leaves as an exception.
C12_TextUnlessModelCallFails ==
  (Done /\ ViaGenerateResponse) =>
    /\ result.kind \in {"return", "raise"}
    /\ result.kind = "return" <=> ~ModelCallFailed
    /\ AnyDispatchRaised => result.kind = "return"

\* a raising dispatch in the second round, answered by a text
C12_Witness ==
  /\ Done
  /\ ViaGenerateResponse
  /\ AnyDispatchRaised
  /\ Len(dispatches) >= 2
  /\ ~ModelCallFailed
  /\ result = Returned(ErrorPrefix \o "Tool execution failed: m1")

(* -------------------------------- C13 --------------------------------- *)

\* the model calls of the run that returned a response
CallsAnswered ==
  Len(responses) - (IF entry = "_handle_tool_execution" THEN 1 ELSE 0)

\* C13: once a model call has raised, be it the first, an intermediate or the
\* final one, the run is over: that call is the last one made, and the caller
\* has the exception the call raised and no answer text.
C13_ModelCallFailurePropagates ==
  (entry # "none" /\ Len(calls) # CallsAnswered) =>
    /\ Done
    /\ Len(calls) = CallsAnswered + 1
    /\ result.kind = "raise"
    /\ result.message \in ModelErrors
    /\ exit \in {"raise_first", "raise_intermediate", "raise_final"}

\* the final call of a two-round run raised
C13_Witness ==
  /\ Done
  /\ ViaGenerateResponse
  /\ Len(calls) = 3
  /\ Len(responses) = 2
  /\ Len(dispatches) >= 2
  /\ Last(calls).site = "final"
  /\ result = Raised("e1")

(* -------------------------------- C14 --------------------------------- *)

\* the position in state.messages of the user turn that round r appended
ResultsTurn(r) == 2 * r + 3

\* the model calls made once round r is counted
CallsAfterRound(r) == r + 1 + (IF ViaGenerateResponse THEN 1 ELSE 0)

\* C14: a dispatch under a name no tool is registered for returns the
\* not-found text and never raises, so it is never the dispatch that ends the
\* run with the error answer; once its round is counted, the text is the tool
\* result carrying that invocation's identifier and the next model call has
\* been made; and its round is counted unless another dispatch of it raised.
C14_UnknownToolIsContent ==
  \A k \in 1..Len(dispatches) :
    LET d == dispatches[k] IN
      ~IsRegistered(registered, d.name) =>
        /\ d.outcome = Returned(NotFoundText(d.name))
        /\ exit = "tool_error" => k < Len(dispatches)
        /\ current_round > d.round =>
             /\ \E i \in AnswersTo(messages, ResultsTurn(d.round), d.id) :
                  /\ AnswersTo(messages, ResultsTurn(d.round), d.id) = {i}
                  /\ messages[ResultsTurn(d.round)].content[i].content
                       = NotFoundText(d.name)
             /\ Len(calls) >= CallsAfterRound(d.round)
        /\ (Done /\ exit # "tool_error") => current_round > d.round

\* the outline tool asked for in the first round of a registry that holds
\* the search tool alone: a second model call follows
C14_Witness ==
  /\ registered = <<SearchToolName>>
  /\ ViaGenerateResponse
  /\ Len(dispatches) >= 1
  /\ dispatches[1].name = OutlineToolName
  /\ dispatches[1].outcome = Returned("Tool 'get_course_outline' not found")
  /\ current_round >= 1
  /\ Len(calls) >= 2
  /\ messages[3].content[1].content = "Tool 'get_course_outline' not found"

(* -------------------------------- C15 --------------------------------- *)

\* what get_last_sources() gives the caller in this state
CollectedSources == collect_sources(registered, last_sources)

\* the sources the k-th dispatch of the query recorded when it returned
SourcesOfDispatch(k) ==
  SourcesOf(query_no, dispatches[k], dispatches[k].outcome.text)

\* C15: whatever queries the registry served before, every source it hands
\* out was recorded by a dispatch of the query now served that returned from
\* a registered tool.
C15_SourcesOfThisQuery ==
  \A i \in 1..Len(CollectedSources) :
    /\ CollectedSources[i].query = query_no
    /\ \E k \in 1..Len(dispatches) :
         /\ dispatches[k].outcome.kind = "return"
         /\ IsRegistered(registered, dispatches[k].name)
         /\ \E j \in 1..Len(SourcesOfDispatch(k)) :
              CollectedSources[i] = SourcesOfDispatch(k)[j]

\* a second query whose one dispatch recorded the one source handed out
C15_Witness ==
  /\ query_no = 2
  /\ Done
  /\ ViaGenerateResponse
  /\ Len(registered) = 2
  /\ Len(dispatches) = 1
  /\ CollectedSources = <<Source(2, dispatches[1])>>

(* -------------------------------- C16 --------------------------------- *)

\* C16 as claimed: a run that ended with the error answer of a raising
\* dispatch leaves no sources to collect, wherever that dispatch sits.
C16_NoSourcesOnToolError ==
  (Done /\ exit = "tool_error") => CollectedSources = <<>>

(* -------------------------------- C18 --------------------------------- *)

\* the positions of the reset_sources calls made on the tool manager
Resets ==
  {i \in 1..Len(registry_calls) : registry_calls[i].op = "reset_sources"}

\* the calls strictly between positions i and j executed no tool and
\* registered no tool object that held sources
NoSourcesBetween(i, j) ==
  \A k \in (i + 1)..(j - 1) :
    /\ registry_calls[k].op # "execute_tool"
    /\ registry_calls[k].op = "register_tool" =>
         registry_calls[k].value.sources = <<>>

\* C18: whatever tools are registered and whatever sources they held, once
\* reset_sources() was called every registered tool holds zero sources and
\* every get_last_sources() that follows returns the empty sequence, until
\* a tool is executed or a tool object holding sources is registered.
C18_ResetThenCollectIsEmpty ==
  \A i \in Resets :
    /\ NoSourcesBetween(i, Len(registry_calls) + 1) =>
         \A n \in DOMAIN last_sources : last_sources[n] = <<>>
    /\ \A j \in (i + 1)..Len(registry_calls) :
         (registry_calls[j].op = "get_last_sources" /\ NoSourcesBetween(i, j))
           => registry_calls[j].value = <<>>

\* two tools that held sources: collected, reset, collected again
C18_Witness ==
  /\ Len(registered) = 2
  /\ Len(registry_calls) = 3
  /\ registry_calls[1].op = "get_last_sources"
  /\ Len(registry_calls[1].value) >= 3
  /\ registry_calls[2].op = "reset_sources"
  /\ registry_calls[3] = RegistryCall("get_last_sources", <<>>)
  /\ \A n \in DOMAIN last_sources : last_sources[n] = <<>>

(* -------------------------------- C19 --------------------------------- *)

RECURSIVE SourcesBefore(_, _, _)
\* how many sources the first i registered tools hold
SourcesBefore(reg, ls, i) ==
  IF i = 0 THEN 0 ELSE SourcesBefore(reg, ls, i - 1) + Len(ls[reg[i]])

\* v holds the sources of every registered tool, tool after tool in
\* registration order, and nothing else
IsConcatenation(v, reg, ls) ==
  /\ Len(v) = SourcesBefore(reg, ls, Len(reg))
  /\ \A i \in 1..Len(reg) :
       \A j \in 1..Len(ls[reg[i]]) :
         v[SourcesBefore(reg, ls, i - 1) + j] = ls[reg[i]][j]

\* C19: every get_last_sources() call returns the sources held by every
\* registered tool, tool after tool in registration order; when two tools
\* hold sources the sources of both are returned.
C19_CollectConcatenates ==
  [][(Len(registry_calls') = Len(registry_calls) + 1
        /\ Last(registry_calls').op = "get_last_sources")
       => IsConcatenation(Last(registry_calls').value, registered,
                          last_sources)]_vars

\* the outline tool registered first and holding one source, the search
\* tool holding two: all three returned, the outline tool's first
C19_Witness ==
  /\ registered = <<OutlineToolName, SearchToolName>>
  /\ Len(registry_calls) = 1
  /\ registry_calls[1].op = "get_last_sources"
  /\ registry_calls[1].value =
       <<HeldSource(OutlineToolName, 1), HeldSource(SearchToolName, 1),
         HeldSource(SearchToolName, 2)>>

(* -------------------------------- C20 --------------------------------- *)

\* C20: _extract_text_from_response returns the texts of the response's text
\* blocks joined in their order, tool-invocation blocks left out: the empty
\* string when there is no text block, and "AB" for a text block A, a
\* tool-invocation block and a text block B.
C20_TextExtraction ==
  pc = "extracted" =>
    /\ result = Returned(TextOf(last_response))
    /\ (\A i \in 1..Len(last_response.content) :
          last_response.content[i].type # "text") => result = Returned("")
    /\ (/\ Len(last_response.content) = 3
        /\ last_response.content[1] = TextBlock("A")
        /\ last_response.content[2].type = "tool_use"
        /\ last_response.content[3] = TextBlock("B")) => result = Returned("AB")

\* the text A, a tool-invocation block, the text B: "AB" returned
C20_Witness ==
  /\ pc = "extracted"
  /\ last_response.content =
       <<TextBlock("A"), ToolUseBlock("toolu_1_2", SearchToolName),
         TextBlock("B")>>
  /\ result = Returned("AB")

(* -------------------------------- C21 --------------------------------- *)

\* s is what t starts with
IsPrefix(s, t) ==
  /\ Len(s) <= Len(t)
  /\ \A i \in 1..Len(s) : s[i].role = t[i].role /\ s[i] = t[i]

\* the history starts with the user's query
StartsWithQuery(history) ==
  /\ history # <<>>
  /\ history[1].role = "user"
  /\ history[1].content \in Queries

\* C21: the history sent with a model call is what the history sent with
\* every later call of the run starts with, its first turn is the user's
\* query, and inside the orchestrator every step leaves state.messages as it
\* is or adds turns at its end.
C21_HistoryOnlyGrows ==
  /\ [](/\ \A i \in 1..Len(calls) : StartsWithQuery(calls[i].messages)
        /\ \A i \in 1..Len(calls) :
             \A j \in i..Len(calls) :
               IsPrefix(calls[i].messages, calls[j].messages))
  /\ [](InOrchestrator =>
          /\ StartsWithQuery(messages)
          /\ calls # <<>> => IsPrefix(Last(calls).messages, messages))
  /\ [][InOrchestrator => IsPrefix(messages, messages')]_vars

\* three calls whose histories hold one, three and five turns
C21_Witness ==
  /\ Len(calls) = 3
  /\ Len(calls[1].messages) = 1
  /\ Len(calls[2].messages) = 3
  /\ Len(calls[3].messages) = 5
  /\ calls[3].messages[2].role = "assistant"
  /\ calls[3].messages[3] = calls[2].messages[3]

(* -------------------------------- C28 --------------------------------- *)

\* the positions in calls of the intermediate calls
IntermediateCalls ==
  {p \in 1..Len(calls) : calls[p].site = "intermediate"}

\* the round after which the call at position p of calls was made
RoundBefore(p) == IF ViaGenerateResponse THEN p - 1 ELSE p

\* what C28 says of an intermediate call apart from the schemas it offers:
\* there is one such call per counted round that left rounds to spare, it
\* carries the history accumulated so far, ending with the turns of the round
\* just counted, and the system content the run started with, and as long as
\* the loop has not moved on its response is the current response
IntermediateCallsAsClaimed ==
  /\ Orchestrated /\ max_rounds >= 1 =>
       Cardinality(IntermediateCalls) = Min(current_round, max_rounds - 1)
  /\ \A p \in IntermediateCalls :
       /\ Len(calls[p].messages) = 2 * RoundBefore(p) + 1
       /\ calls[p].messages[2 * RoundBefore(p)].content
            = responses[RoundBefore(p)].content
       /\ calls[p].messages[2 * RoundBefore(p) + 1].role = "user"
       /\ calls[p].system = system
       /\ ViaGenerateResponse => calls[p].system = calls[1].system
       /\ calls[p].has_tools
       /\ calls[p].has_tool_choice
       /\ (p = Len(calls) /\ pc = "loop") => last_response = Last(responses)

\* C28 as claimed: the schemas an intermediate call offers are the list the
\* first call offered.
C28_SchemasOfFirstCall ==
  /\ IntermediateCallsAsClaimed
  /\ ViaGenerateResponse =>
       \A p \in IntermediateCalls :
         /\ calls[p].has_tools = calls[1].has_tools
         /\ calls[p].tools = calls[1].tools

\* C28: after a counted round that leaves rounds to spare exactly one
\* intermediate call is made, with the accumulated history, the system
\* content of the first call, automatic tool choice and the schema list of
\* the tool manager, whatever list the first call offered; its response is
\* the current response the loop examines next.
C28_SchemasOfToolManager ==
  /\ IntermediateCallsAsClaimed
  /\ \A p \in IntermediateCalls : calls[p].tools = ToolSchemas

\* a first call without tools and with a history, followed by an intermediate
\* call that offers the tool manager's schemas
C28_Witness ==
  /\ ViaGenerateResponse
  /\ pc = "loop"
  /\ Len(calls) = 2
  /\ calls[1].tools = <<>>
  /\ calls[1].system = SYSTEM_PROMPT \o "\n\nPrevious conversation:\nH"
  /\ calls[2].site = "intermediate"
  /\ calls[2].system = calls[1].system
  /\ calls[2].tools = <<SearchToolName, OutlineToolName>>
  /\ last_response = responses[2]

(* -------------------------------- C29 --------------------------------- *)

\* the response whose tool-invocation blocks round r dispatches
ResponseOfRound(r) == responses[r + 1]

\* the rounds a dispatch was made in
RoundsDispatched == {dispatches[k].round : k \in 1..Len(dispatches)}

\* C29: the dispatches are logged round after round; those of a round are
\* the first tool-invocation blocks of that round's response, one dispatch
\* per block and in the order of the blocks; every dispatch but the last one
\* made has returned; and when a model call follows a round, every block of
\* the round has been dispatched before it.
C29_DispatchOrder ==
  /\ \A k \in 1..(Len(dispatches) - 1) :
       /\ dispatches[k].round <= dispatches[k + 1].round
       /\ dispatches[k].outcome.kind = "return"
  /\ \A r \in RoundsDispatched :
       LET made == DispatchesOfRound(r)
           blocks == ToolUseBlocks(ResponseOfRound(r).content)
       IN /\ Len(made) <= Len(blocks)
          /\ \A i \in 1..Len(made) :
               /\ made[i].id = blocks[i].id
               /\ made[i].name = blocks[i].name
          /\ Len(responses) > r + 1 => Len(made) = Len(blocks)
          /\ current_round > r => Len(made) = Len(blocks)

\* two blocks dispatched in the first round, in their order, then a model
\* call, then a dispatch of the second round
C29_Witness ==
  /\ Len(dispatches) = 3
  /\ dispatches[1].id = "toolu_1_1"
  /\ dispatches[2].id = "toolu_1_2"
  /\ dispatches[1].round = 0
  /\ dispatches[2].round = 0
  /\ dispatches[3].round = 1
  /\ Len(responses) = 2

(* -------------------------------- C30 --------------------------------- *)

RECURSIVE BlocksOfRounds(_)
\* the tool-invocation blocks of the responses of the first n rounds
BlocksOfRounds(n) ==
  IF n = 0
    THEN 0
    ELSE BlocksOfRounds(n - 1)
           + Len(ToolUseBlocks(ResponseOfRound(n - 1).content))

\* C30: every counted round has made as many dispatches as its response
\* holds tool-invocation blocks, at least one, so the dispatches of the
\* counted rounds number the blocks of their responses, while the counter
\* itself is the number of responses whose blocks were dispatched: a round
\* of several blocks counts once.
C30_RoundPerResponse ==
  /\ current_round <= Len(responses)
  /\ \A r \in 0..(current_round - 1) :
       /\ Len(ToolUseBlocks(ResponseOfRound(r).content)) >= 1
       /\ Len(DispatchesOfRound(r))
            = Len(ToolUseBlocks(ResponseOfRound(r).content))
  /\ ~AnyDispatchRaised /\ pc # "exec" =>
       /\ Len(dispatches) = BlocksOfRounds(current_round)
       /\ Cardinality(RoundsDispatched) = current_round

\* one response of two blocks: two dispatches, one round
C30_Witness ==
  /\ Done
  /\ ~AnyDispatchRaised
  /\ Len(dispatches) = 2
  /\ dispatches[1].round = 0
  /\ dispatches[2].round = 0
  /\ current_round = 1
  /\ Len(ToolUseBlocks(responses[1].content)) = 2

(* -------------------------------- C24 --------------------------------- *)

\* the history argument is absent or empty
NoHistory == args.conversation_history \in {None, ""}

\* C24: the first call's system content is the static instructions alone
\* when the history is absent or empty, and otherwise the static instructions,
\* a blank line, the line "Previous conversation:" and the history verbatim;
\* its messages are one user turn holding the query, whatever the query is.
C24_FirstCallContent ==
  pc = "prompted" =>
    /\ Len(calls) = 1
    /\ calls[1].messages = <<[role |-> "user", content |-> args.query]>>
    /\ NoHistory => calls[1].system = SYSTEM_PROMPT
    /\ ~NoHistory =>
         calls[1].system =
           SYSTEM_PROMPT \o "\n\nPrevious conversation:\n"
             \o args.conversation_history
    /\ system = calls[1].system

\* an empty history, which is not None, with a query that reads like the
\* section's heading
C24_Witness ==
  /\ pc = "prompted"
  /\ args.conversation_history = ""
  /\ args.query = "Previous conversation:"
  /\ calls[1].system = SYSTEM_PROMPT

\* a two-line history is appended verbatim
C24_WitnessHistory ==
  /\ pc = "prompted"
  /\ calls[1].system
       = "SYSTEM_PROMPT\n\nPrevious conversation:\nUser: a\nAssistant: b"

(* -------------------------------- C23 --------------------------------- *)

Started == startup.kind = "startup"

\* C23: test_connection never raises: it returns (True, message) when the
\* probe call returns and (False, message), the message naming the failure,
\* when the probe call raises.
C23_TestConnectionNeverRaises ==
  Started =>
    /\ startup.connection.kind = "return"
    /\ startup.probe.kind = "return" =>
         /\ startup.connection.success
         /\ startup.connection.message = "Connection successful"
    /\ startup.probe.kind = "raise" =>
         /\ ~startup.connection.success
         /\ startup.connection.message
              = "Connection failed: " \o startup.probe.message

\* the probe raised and test_connection returned the pair
C23_Witness ==
  /\ Started
  /\ startup.probe = Raised("e1")
  /\ startup.connection = ConnectionResult(FALSE, "Connection failed: e1")

(* -------------------------------- C25 --------------------------------- *)

\* the request at position i of http gives a session_id field
GivesSessionId(i) == http[i].request.session_id # None

\* the request at position i of http gives a session_id that is not empty
GivesSession(i) == http[i].request.session_id \notin {None, ""}

Answered(i) == http[i].response.status_code = 200

\* how many sessions the request at position i of http created
SessionsCreatedBy(i) ==
  Cardinality({k \in 1..Len(http[i].calls) :
                 http[i].calls[k].op = "create_session"})

\* the request at position i created one session, before it ran the query
\* with the id of that session, and that id is the one it returns
CreatesThenQueries(i) ==
  /\ SessionsCreatedBy(i) = 1
  /\ http[i].calls[1].op = "create_session"
  /\ Answered(i) =>
       /\ Len(http[i].calls) = 2
       /\ http[i].calls[2].op = "query"
       /\ http[i].calls[2].session_id = http[i].response.session_id
       /\ \E k \in 1..Len(sessions) : sessions[k] = http[i].response.session_id
       /\ http[i].response.session_id \notin {None, ""}

\* the request at position i created no session, ran the query with the
\* session_id it gave, and returns that session_id
UsesGivenSession(i) ==
  /\ SessionsCreatedBy(i) = 0
  /\ http[i].calls[1].op = "query"
  /\ http[i].calls[1].session_id = http[i].request.session_id
  /\ Answered(i) => http[i].response.session_id = http[i].request.session_id

\* C25 as claimed: a request that gives a session_id gets it back unchanged
\* and creates no session; one that gives none creates exactly one.
C25_GivenSessionKept ==
  \A i \in 1..Len(http) :
    IF GivesSessionId(i) THEN UsesGivenSession(i) ELSE CreatesThenQueries(i)

\* C25: a request that gives a session_id that is not empty gets it back
\* unchanged and creates no session; one that gives none, or the empty
\* string, creates exactly one session before the query runs, runs the query
\* with that session's id and returns it.
C25_NonEmptySessionKept ==
  \A i \in 1..Len(http) :
    IF GivesSession(i) THEN UsesGivenSession(i) ELSE CreatesThenQueries(i)

\* a request with an empty session_id answered with a new session's id, then
\* a request answered with the session_id it gave
C25_Witness ==
  /\ Len(http) = 2
  /\ http[1].request.session_id = ""
  /\ http[1].response.status_code = 200
  /\ http[1].response.session_id = "session_1"
  /\ http[2].request.session_id = "existing_session_123"
  /\ http[2].response.status_code = 200
  /\ http[2].response.session_id = "existing_session_123"
  /\ sessions = <<"session_1">>

(* -------------------------------- C26 --------------------------------- *)

\* C26: when create_session or rag_system.query raises, the response is an
\* HTTP 500 whose detail is the exception's message, what leaves the
\* endpoint is that HTTPException and nothing else, and no answer is
\* returned; when neither raises the response is the answer.
C26_ExceptionBecomes500 ==
  \A i \in 1..Len(http) :
    /\ http[i].response.status_code \in {200, 500}
    /\ http[i].raised # None =>
         /\ http[i].response.status_code = 500
         /\ http[i].response = HTTPException(500, http[i].raised)
         /\ DOMAIN http[i].response = {"kind", "status_code", "detail"}
    /\ http[i].raised = None =>
         /\ http[i].response.status_code = 200
         /\ http[i].response.answer = "A"

\* create_session raised in one request and rag_system.query in another
C26_Witness ==
  /\ Len(http) = 2
  /\ http[1].calls = <<[op |-> "create_session"]>>
  /\ http[1].response = HTTPException(500, "e2")
  /\ Len(http[2].calls) = 2
  /\ http[2].response = HTTPException(500, "RAG system error")

(* -------------------------------- C22 --------------------------------- *)

\* the positions in registry_calls of the executes of the search tool whose
\* course name did not resolve
SearchMisses ==
  {k \in 1..Len(registry_calls) :
     /\ registry_calls[k].op = "execute_tool"
     /\ registry_calls[k].value.name = SearchToolName
     /\ registry_calls[k].value.tool > 0
     /\ ~Resolves(registry_calls[k].value.course_name)}

\* the sources get_last_sources returned that the search tool recorded
SearchSourcesIn(collected) ==
  {i \in 1..Len(collected) :
     \E k \in 1..MaxRegistryCalls + 1, j \in 1..MaxSources + 1 :
       \/ collected[i].name = "source of call_" \o Digit[k]
            /\ k <= Len(registry_calls)
            /\ registry_calls[k].op = "execute_tool"
            /\ registry_calls[k].value.name = SearchToolName
       \/ collected[i] = HeldSource(SearchToolName, j)}

\* C22: an execute of the search tool whose course name does not resolve
\* returns the text "No course found matching '<input>'" and never raises;
\* the tool then holds zero sources, whatever it held before, until a tool is
\* executed or a tool object holding sources is registered, so
\* get_last_sources returns none of its sources.
C22_MissLeavesNoSources ==
  \A k \in SearchMisses :
    /\ registry_calls[k].value.outcome.kind = "return"
    /\ registry_calls[k].value.outcome.text
         = "No course found matching '"
             \o registry_calls[k].value.course_name \o "'"
    /\ NoSourcesBetween(k, Len(registry_calls) + 1) =>
         last_sources[SearchToolName] = <<>>
    /\ \A j \in (k + 1)..Len(registry_calls) :
         (registry_calls[j].op = "get_last_sources" /\ NoSourcesBetween(k, j))
           => SearchSourcesIn(registry_calls[j].value) = {}

\* the search tool records a source, then misses: nothing is left to collect
C22_Witness ==
  /\ registered = <<SearchToolName>>
  /\ Len(registry_calls) = 3
  /\ registry_calls[1].op = "execute_tool"
  /\ registry_calls[1].value.course_name = "MCP"
  /\ registry_calls[1].value.outcome.kind = "return"
  /\ registry_calls[2].op = "execute_tool"
  /\ registry_calls[2].value.course_name = "zzz-no-such-course"
  /\ registry_calls[2].value.outcome
       = Returned("No course found matching 'zzz-no-such-course'")
  /\ registry_calls[3] = RegistryCall("get_last_sources", <<>>)

(* -------------------------------- C27 --------------------------------- *)

\* the positions in registry_calls, before position k, of the registrations
\* under name n
RegisteredBefore(n, k) ==
  {j \in 1..(k - 1) :
     /\ registry_calls[j].op = "register_tool"
     /\ registry_calls[j].value.name = n}

\* how many schemas of a list bear the name n
SchemasNamed(schemas, n) ==
  Cardinality({i \in 1..Len(schemas) : schemas[i] = n})

\* the greatest element of a non-empty set of numbers
Max(S) == CHOOSE m \in S : \A x \in S : x <= m

\* C27: a name is never listed twice, however often a tool is registered
\* under it: every schema list handed out after a registration under a name
\* holds one schema of that name, and an execute under the name reaches the
\* tool object registered last under it.
C27_LastRegistrationWins ==
  /\ \A n \in {SearchToolName, OutlineToolName} :
       SchemasNamed(registered, n) <= 1
  /\ \A k \in 1..Len(registry_calls) :
       /\ registry_calls[k].op = "register_tool" =>
            SchemasNamed(registered, registry_calls[k].value.name) = 1
       /\ registry_calls[k].op = "get_tool_definitions" =>
            \A n \in {SearchToolName, OutlineToolName} :
              /\ SchemasNamed(registry_calls[k].value, n) <= 1
              /\ RegisteredBefore(n, k) # {} =>
                   SchemasNamed(registry_calls[k].value, n) = 1
       /\ (/\ registry_calls[k].op = "execute_tool"
           /\ RegisteredBefore(registry_calls[k].value.name, k) # {}) =>
            registry_calls[k].value.tool =
              registry_calls[
                Max(RegisteredBefore(registry_calls[k].value.name, k))
              ].value.tool

\* a second search tool is registered over the first: one schema is listed
\* and the execute reaches the second
C27_Witness ==
  /\ Len(registry_calls) = 3
  /\ registry_calls[1].op = "register_tool"
  /\ registry_calls[1].value.name = SearchToolName
  /\ registry_calls[1].value.tool = 2
  /\ registry_calls[2] =
       RegistryCall("get_tool_definitions", <<SearchToolName>>)
  /\ registry_calls[3].op = "execute_tool"
  /\ registry_calls[3].value.name = SearchToolName
  /\ registry_calls[3].value.tool = 2

(* -------------------------------- C31 --------------------------------- *)

\* the position in state.messages of the assistant turn that round r appended
AssistantTurnOf(r) == 2 * r + 2

\* in history, round r's assistant turn is the content of the round's
\* response, block for block, and the turn right after it is the user turn
\* whose tool results answer the round's invocations, in their order
RoundTurnsIn(history, r) ==
  /\ Len(history) >= ResultsTurn(r)
  /\ history[AssistantTurnOf(r)].role = "assistant"
  /\ Len(history[AssistantTurnOf(r)].content)
       = Len(ResponseOfRound(r).content)
  /\ \A i \in 1..Len(ResponseOfRound(r).content) :
       history[AssistantTurnOf(r)].content[i] = ResponseOfRound(r).content[i]
  /\ ResultsTurn(r) = AssistantTurnOf(r) + 1
  /\ history[ResultsTurn(r)].role = "user"
  /\ LET results == history[ResultsTurn(r)].content
         blocks == ToolUseBlocks(ResponseOfRound(r).content)
     IN /\ Len(results) = Len(blocks)
        /\ \A i \in 1..Len(results) :
             /\ results[i].type = "tool_result"
             /\ results[i].tool_use_id = blocks[i].id

\* C31: for every counted round, the history holds an assistant turn whose
\* content is the content of the round's response, text blocks and
\* tool-invocation blocks alike, unchanged and in order, immediately followed
\* by the user turn holding the round's tool results; the same is true of the
\* history sent with every model call made after the round.
C31_AssistantTurnAsIs ==
  /\ InOrchestrator \/ (Done /\ Orchestrated) =>
       /\ Len(messages) = 2 * current_round + 1
       /\ \A r \in 0..(current_round - 1) : RoundTurnsIn(messages, r)
  /\ \A p \in 1..Len(calls) :
       calls[p].site # "first" =>
         /\ Len(calls[p].messages) = 2 * RoundBefore(p) + 1
         /\ \A r \in 0..(RoundBefore(p) - 1) :
              RoundTurnsIn(calls[p].messages, r)

\* a response of a text block and a tool-invocation block: both are in the
\* assistant turn sent with the next call, before the one tool result
C31_Witness ==
  /\ Len(calls) = 2
  /\ Len(responses) >= 1
  /\ Len(responses[1].content) = 2
  /\ responses[1].content[1] = TextBlock("A")
  /\ responses[1].content[2].type = "tool_use"
  /\ Len(calls[2].messages) = 3
  /\ calls[2].messages[2] = AssistantTurn(responses[1].content)
  /\ calls[2].messages[3].role = "user"
  /\ Len(calls[2].messages[3].content) = 1

(* -------------------------------- C34 --------------------------------- *)

\* the role the turn at position i of a history has when turns alternate
\* from a user turn on
RoleAt(i) == IF i % 2 = 1 THEN "user" ELSE "assistant"

\* the turns of history alternate, from a user turn to a user turn, and no
\* user turn after the query holds an empty list of tool results
Alternates(history) ==
  /\ Len(history) % 2 = 1
  /\ \A i \in 1..Len(history) : history[i].role = RoleAt(i)
  /\ \A i \in 2..Len(history) :
       history[i].role = "user" =>
         /\ Len(history[i].content) >= 1
         /\ \A j \in 1..Len(history[i].content) :
              history[i].content[j].type = "tool_result"

\* C34: the history sent with every model call starts with a user turn, ends
\* with a user turn and alternates between user and assistant turns in
\* between; every user turn after the query holds at least one tool result.
\* The history the orchestrator keeps has the same shape between its steps.
C34_TurnsAlternate ==
  /\ \A p \in 1..Len(calls) : Alternates(calls[p].messages)
  /\ InOrchestrator => Alternates(messages)

\* the final call of a two-round run: user, assistant, user, assistant, user
C34_Witness ==
  /\ Len(calls) = 3
  /\ Last(calls).site = "final"
  /\ Len(Last(calls).messages) = 5
  /\ Last(calls).messages[4].role = "assistant"
  /\ Last(calls).messages[5].role = "user"
  /\ Len(Last(calls).messages[5].content) = 2

(* -------------------------------- C35 --------------------------------- *)

\* generate_response has its first response
FirstAnswered == ViaGenerateResponse /\ Len(responses) >= 1

\* the first response holds tool-invocation blocks, its stop condition is
\* not tool use
BlocksWithoutStop ==
  /\ FirstAnswered
  /\ responses[1].stop_reason # "tool_use"
  /\ ToolUseBlocks(responses[1].content) # <<>>

\* the first response's stop condition is tool use, it holds no
\* tool-invocation block
StopWithoutBlocks ==
  /\ FirstAnswered
  /\ responses[1].stop_reason = "tool_use"
  /\ ToolUseBlocks(responses[1].content) = <<>>

\* C35: a first response that holds tool-invocation blocks under a stop
\* condition other than tool use is answered at once from its text blocks,
\* with no dispatch and one model call; a first response whose stop condition
\* is tool use but that holds no tool-invocation block leads to no dispatch
\* and no second model call, and the run's next step, if it has not ended
\* yet, ends it with the text of that response.
C35_DisagreementRunsNoTool ==
  /\ [](BlocksWithoutStop =>
          /\ Done
          /\ exit = "direct"
          /\ dispatches = <<>>
          /\ Len(calls) = 1
          /\ result = Returned(TextOf(responses[1])))
  /\ [](StopWithoutBlocks =>
          /\ pc \in {"loop", "done"}
          /\ dispatches = <<>>
          /\ Len(calls) = 1
          /\ Len(responses) = 1
          /\ Done => result = Returned(TextOf(responses[1])))
  /\ [][(StopWithoutBlocks /\ pc = "loop") =>
          /\ pc' = "done"
          /\ result' = Returned(TextOf(responses[1]))]_vars

\* a text block and a tool-invocation block under end_turn, a tool manager
\* given: the text is the answer, nothing was dispatched
C35_Witness ==
  /\ Done
  /\ ViaGenerateResponse
  /\ tool_manager
  /\ Len(responses) = 1
  /\ responses[1].stop_reason = "end_turn"
  /\ Len(responses[1].content) = 2
  /\ responses[1].content[1] = TextBlock("A")
  /\ responses[1].content[2].type = "tool_use"
  /\ dispatches = <<>>
  /\ result = Returned("A")

\* tool use announced by a response of one text block, a tool manager
\* given: the orchestrator returns the text without a second call
C35_WitnessNoBlocks ==
  /\ Done
  /\ StopWithoutBlocks
  /\ exit = "early"
  /\ Len(calls) = 1
  /\ result = Returned("B")

(* -------------------------------- C36 --------------------------------- *)

\* the orchestrator was called with no round to spend
NoRoundAllowed ==
  entry = "_handle_tool_execution" /\ pc # "idle" /\ max_rounds <= 0

\* C36: called with max_rounds <= 0, the orchestrator dispatches no tool and
\* makes no model call, the forced final call included, whatever the initial
\* response holds; its one step returns the text of the initial response,
\* the empty string when that response holds tool-invocation blocks only.
C36_NoRoundNoWork ==
  /\ [](NoRoundAllowed =>
          /\ pc \in {"loop", "done"}
          /\ dispatches = <<>>
          /\ calls = <<>>
          /\ responses = <<last_response>>
          /\ current_round = 0
          /\ Done =>
               /\ exit = "fallback"
               /\ result = Returned(TextOf(last_response))
               /\ (\A i \in 1..Len(last_response.content) :
                     last_response.content[i].type = "tool_use")
                    => result = Returned(""))
  /\ [][(NoRoundAllowed /\ pc = "loop") =>
          /\ pc' = "done"
          /\ exit' = "fallback"]_vars

\* two tool-invocation blocks under tool_use and max_rounds 0: the answer is
\* the empty string
C36_Witness ==
  /\ Done
  /\ entry = "_handle_tool_execution"
  /\ max_rounds = 0
  /\ last_response.stop_reason = "tool_use"
  /\ Len(ToolUseBlocks(last_response.content)) = 2
  /\ dispatches = <<>>
  /\ calls = <<>>
  /\ result = Returned("")

(* -------------------------------- C38 --------------------------------- *)

\* an orchestration run with at least one round to spend
HasRounds == Orchestrated /\ max_rounds >= 1

\* C38 as claimed: with max_rounds >= 1 every run that has ended left the
\* orchestrator by early termination, by a tool error or by the forced final
\* call.
C38_ThreeExitsInsideLoop ==
  (Done /\ HasRounds) => exit \in {"early", "tool_error", "final"}

\* C38: with max_rounds >= 1 the return after the loop is never taken:
\* whenever the loop condition is evaluated it is true, and every run that
\* has ended left from inside the loop, by early termination, by a tool
\* error, by the forced final call, or by the exception of an intermediate
\* or final model call.
C38_FallbackUnreachable ==
  /\ []((Done /\ HasRounds) =>
          /\ exit # "fallback"
          /\ exit \in {"early", "tool_error", "final", "raise_intermediate",
                       "raise_final"})
  /\ []((pc = "loop" /\ HasRounds) => current_round < max_rounds)
  /\ [][(pc = "loop" /\ exit' = "fallback") => max_rounds <= 0]_vars

\* an iteration completed, the loop condition held again, and the run left
\* from inside the second iteration
C38_Witness ==
  /\ Done
  /\ HasRounds
  /\ max_rounds = 2
  /\ current_round = 1
  /\ Len(calls) = 2
  /\ Len(dispatches) >= 1
  /\ exit = "early"

(* -------------------------------- C37 --------------------------------- *)

\* C37: a query that generate_response hands to the orchestrator runs with
\* max_rounds = 2 whatever MAX_TOOL_ROUNDS is configured: it never counts
\* more than two rounds, its forced final call is the third model call, and
\* a second round is executed even when fewer rounds are configured.
C37_ConfiguredRoundsIgnored ==
  (ViaGenerateResponse /\ Orchestrated) =>
    /\ max_rounds = 2
    /\ current_round <= 2
    /\ Len(calls) <= 3
    /\ \A p \in 1..Len(calls) : calls[p].site = "final" <=> p = 3
    /\ exit = "final" => current_round = 2

\* one round configured, two rounds run
C37_Witness ==
  /\ config.MAX_TOOL_ROUNDS = 1
  /\ ViaGenerateResponse
  /\ Done
  /\ exit = "final"
  /\ current_round = 2
  /\ Len(calls) = 3
  /\ calls[2].site = "intermediate"

\* three rounds configured, the third response's tool requests not executed
C37_WitnessMore ==
  /\ config.MAX_TOOL_ROUNDS = 3
  /\ ViaGenerateResponse
  /\ Done
  /\ exit = "final"
  /\ Len(responses) = 3
  /\ ToolUseBlocks(responses[3].content) # <<>>
  /\ \A k \in 1..Len(dispatches) : dispatches[k].round < 2

(* -------------------------------- C33 --------------------------------- *)

\* startup_event called add_course_folder
LoadingAttempted ==
  \E i \in 1..Len(startup.steps) : startup.steps[i] = "add_course_folder"

\* the pre-check is the first thing startup does, and it is done once
PreCheckFirst ==
  /\ startup.steps # <<>>
  /\ startup.steps[1] = "test_connection"
  /\ \A i \in 2..Len(startup.steps) : startup.steps[i] # "test_connection"

\* what startup does when the pre-check reports failure
FailureStopsStartup ==
  (startup.connection.kind = "return" /\ ~startup.connection.success) =>
    /\ startup.raised = HTTPException(500, "LLM connection test failed")
    /\ pc = "startup_failed"
    /\ ~LoadingAttempted
    /\ ~startup.loaded
    /\ http = <<>>

\* C33 as claimed: the pre-check comes first, its failure makes startup
\* raise with no document loaded, and its success is followed by an attempt
\* to load the documents, whose exception does not abort startup.
C33_LoadingAlwaysAttempted ==
  Started =>
    /\ PreCheckFirst
    /\ FailureStopsStartup
    /\ (startup.connection.kind = "return" /\ startup.connection.success) =>
         /\ LoadingAttempted
         /\ startup.raised = NoResult

\* C33: the pre-check is the first step of startup; when it reports failure
\* startup raises and nothing is loaded; when it reports success startup
\* never raises: it attempts the loading if the documents path exists, logs
\* the exception of a loading that raises and goes on, and logs a warning
\* without attempting any loading if the path does not exist.
C33_LoadingAttemptedIfPathExists ==
  Started =>
    /\ PreCheckFirst
    /\ FailureStopsStartup
    /\ (startup.connection.kind = "return" /\ startup.connection.success) =>
         /\ startup.raised = NoResult
         /\ pc = "serving"
         /\ LoadingAttempted <=> startup.docs # "absent"
         /\ startup.loaded <=> startup.docs = "loaded"
         /\ startup.docs = "load_raises" =>
              Last(startup.logged) = "error: Error loading documents"
         /\ startup.docs = "absent" =>
              Last(startup.logged) = "warning: Documents path does not exist"

\* the pre-check succeeded and the loading raised: startup went on, and a
\* request was served
C33_Witness ==
  /\ Started
  /\ startup.connection.success
  /\ startup.steps = <<"test_connection", "add_course_folder">>
  /\ startup.docs = "load_raises"
  /\ ~startup.loaded
  /\ startup.raised = NoResult
  /\ Len(http) = 1

(* -------------------------------- C32 --------------------------------- *)

\* the two calls in progress
Runs == {1, 2}

\* the locals and orchestration state of call i
FrameOf(i) == IF run = i THEN Frame ELSE parked

\* the identifiers of the tool-invocation blocks of the conversation of call i
ToolUseIdsOf(i) == {ToolUseIdOf(i, k, j) : k \in 1..3, j \in 1..2}

\* the turn belongs to the conversation of call i: it holds the query of
\* call i, or blocks of a response to call i, or results of invocations
\* that a response to call i made
TurnOf(i, turn) ==
  IF turn.role = "user"
    THEN \/ turn.content = "Q" \o Digit[i]
         \/ /\ turn.content # "Q" \o Digit[3 - i]
            /\ \A j \in 1..Len(turn.content) :
                 turn.content[j].tool_use_id \in ToolUseIdsOf(i)
    ELSE /\ \E k \in 1..Len(FrameOf(i).responses) :
              turn.content = FrameOf(i).responses[k].content
         /\ \E j \in 1..Len(turn.content) :
              /\ turn.content[j].type = "tool_use"
              /\ turn.content[j].id \in ToolUseIdsOf(i)

\* every turn of the history belongs to the conversation of call i
HistoryOf(i, history) == \A t \in 1..Len(history) : TurnOf(i, history[t])

\* C32: of two calls in progress on one generator, each sends in its model
\* calls its own query, its own system content and turns of its own
\* conversation only, keeps a history of its own turns and a round counter
\* that counts its own rounds, and examines a response to one of its own
\* calls; self.base_params stays as __init__ built it.
C32_RunsShareNoState ==
  /\ base_params = GeneratorBaseParams
  /\ \A i \in Runs :
       LET f == FrameOf(i) IN
         /\ \A p \in 1..Len(f.calls) :
              /\ f.calls[p].messages # <<>>
              /\ f.calls[p].messages[1] = UserTurn("Q" \o Digit[i])
              /\ HistoryOf(i, f.calls[p].messages)
              /\ Len(f.calls[p].messages) = 2 * (p - 1) + 1
              /\ f.calls[p].system =
                   SYSTEM_PROMPT \o "\n\nPrevious conversation:\nH" \o Digit[i]
         /\ f.pc \in {"loop", "exec", "create_intermediate", "create_final"} =>
              /\ HistoryOf(i, f.messages)
              /\ Len(f.messages) = 2 * f.current_round + 1
              /\ f.current_round = Len(f.calls) - 1
              /\ f.last_response = Last(f.responses)
         /\ \A k \in 1..Len(f.dispatches) :
              f.dispatches[k].id \in ToolUseIdsOf(i)

\* one call waits inside its intermediate client.messages.create, its second
\* request sent and one response received, while the other call is in the
\* middle of its second round
C32_Witness ==
  /\ pc = "exec"
  /\ current_round = 1
  /\ Len(calls) = 2
  /\ Len(dispatches) = 2
  /\ parked.pc = "create_intermediate"
  /\ parked.current_round = 1
  /\ Len(parked.calls) = 2
  /\ Len(parked.responses) = 1
  /\ Len(parked.messages) = 3
  /\ parked.messages[1].content # messages[1].content

====
